---------------------------- MODULE Spec2Model ----------------------------
(***************************************************************************)
(* State-machine model of the two election contracts of the repository:    *)
(*   GovernanceVoting  (elect/migrations/3_weighted_election.js, l.13-388) *)
(*   WeightedElection  (elect/contracts/WeightedElection.sol)              *)
(* Every external function is one action; a reverted call leaves the       *)
(* contract storage unchanged.  The revert reason of a call is given by    *)
(* the <function>Err operator, evaluated in the state the call is made in. *)
(***************************************************************************)
EXTENDS Integers, Sequences, FiniteSets, TLC

(***************************************************************************)
(* Bounds of the model                                                     *)
(***************************************************************************)
\* width of the unsigned integers (uint256 in the source)
UintBits == 10
\* _proposals holds at most this many proposals
MaxProposals == 2
\* delegatedWeight is followed up to this value
MaxDelegated == 2
\* the clock is followed until this many minutes past the end of the window
MaxMinutes == 1
\* records of the event log that are followed
MaxEvents == 6

(***************************************************************************)
(* Identities, inputs and program constants                                *)
(***************************************************************************)
MAX_UINT == 2^UintBits - 1

ZERO_ADDRESS == 0

admin == 1

Accounts == {1, 2, 3}

Addresses == {ZERO_ADDRESS} \cup Accounts

MINUTES == 60

\* titles handed to the constructor (a prefix of this list) and to addProposal
InitialTitles == <<"A", "B", "C", "D">>

TitleInputs == {"", "A"}

WeightInputs == {0, 1, 2}

DurationInputs == {0, 1}

ProposalIdInputs == 0..MaxProposals

OK == "ok"

\* arithmetic overflow or underflow of checked uint256 arithmetic
PANIC == "Panic(0x11)"

\* array index out of bounds
OUT_OF_BOUNDS == "Panic(0x32)"

VARIABLES
    contract,         \* which of the two contracts this instance is
    phase,            \* GovernanceVoting.phase
    paused,           \* Pausable._paused
    votingStartTime,  \* GovernanceVoting.votingStartTime
    votingEndTime,    \* GovernanceVoting.votingEndTime
    proposals,        \* GovernanceVoting._proposals
    voters,           \* GovernanceVoting._voters
    voterAddresses,   \* GovernanceVoting._voterAddresses
    wPhase,           \* WeightedElection.phase
    wProposals,       \* WeightedElection._proposals
    wVoters,          \* WeightedElection._voters
    now,              \* block.timestamp
    qvWeight,         \* argument of a calculateQuadraticVotes call
    qvResult,         \* its return value (-2 before the call, -1 for a panic)
    listening,        \* whether a subscriber collects the event log of this instance
    events            \* the records it has collected, in the order of emission

gstate == <<phase, paused, votingStartTime, votingEndTime, proposals, voters, voterAddresses>>

wstate == <<wPhase, wProposals, wVoters>>

qvstate == <<qvWeight, qvResult>>

logstate == <<listening, events>>

vars == <<contract, phase, paused, votingStartTime, votingEndTime, proposals, voters,
          voterAddresses, wPhase, wProposals, wVoters, now,
          qvWeight, qvResult, listening, events>>

(***************************************************************************)
(* Helpers                                                                 *)
(***************************************************************************)
Proposal(title, description) ==
    [title |-> title, description |-> description, voteCount |-> 0, rawVoteCount |-> 0]

Voter ==
    [whitelisted |-> FALSE, weight |-> 0, voted |-> FALSE, votedProposalId |-> 0,
     delegate |-> ZERO_ADDRESS, delegatedWeight |-> 0]

W_Proposal(title) == [title |-> title, voteCount |-> 0]

W_Voter == [whitelisted |-> FALSE, weight |-> 0, voted |-> FALSE, vote |-> 0]

\* require(condition, reason); rest: the revert reason of the statement, or the
\* outcome of what follows it
require(condition, reason, rest) == IF condition THEN rest ELSE reason

\* a reverted transaction (reason # OK): the whole storage is left untouched
revert(reason) ==
    /\ reason # OK
    /\ UNCHANGED <<qvstate, logstate, contract, gstate, wstate, now>>

\* mutant: the record is dropped
emit_Dropped(e) == events' = events

\* emit e: the record reaches the subscriber, when there is one
emit(e) == events' = IF listening THEN Append(events, e) ELSE events

\* the title lists a deployment is attempted with
TitleSeqs == {SubSeq(InitialTitles, 1, n) : n \in 0..MaxProposals} \cup {<<"">>, <<"A", "">>}

RECURSIVE SumSeq(_, _)
SumSeq(s, field) == IF s = <<>> THEN 0 ELSE Head(s)[field] + SumSeq(Tail(s), field)

RECURSIVE SumOver(_, _)
SumOver(S, f) ==
    IF S = {} THEN 0
    ELSE LET a == CHOOSE a \in S : TRUE IN f[a] + SumOver(S \ {a}, f)

(***************************************************************************)
(* GovernanceVoting: pure functions                                        *)
(***************************************************************************)
\* the while loop of calculateQuadraticVotes; -1 stands for an arithmetic panic
RECURSIVE babylonian(_, _, _)
babylonian(weight, x, y) ==
    IF y < x
    THEN IF (weight \div y) + y > MAX_UINT THEN -1
         ELSE babylonian(weight, y, ((weight \div y) + y) \div 2)
    ELSE x

calculateQuadraticVotes(weight) ==
    IF weight = 0 THEN 0
    ELSE IF weight = 1 THEN 1
    ELSE IF weight + 1 > MAX_UINT THEN -1
    ELSE babylonian(weight, weight, (weight + 1) \div 2)

\* mutant: the comparison is >=, so the last maximum wins
RECURSIVE winnerLoop_LastMaximum(_, _, _, _)
winnerLoop_LastMaximum(props, i, highestVotes, winningId) ==
    IF i < Len(props)
    THEN IF props[i + 1].voteCount >= highestVotes
         THEN winnerLoop_LastMaximum(props, i + 1, props[i + 1].voteCount, i)
         ELSE winnerLoop_LastMaximum(props, i + 1, highestVotes, winningId)
    ELSE winningId

RECURSIVE winnerLoop(_, _, _, _)
winnerLoop(props, i, highestVotes, winningId) ==
    IF i < Len(props)
    THEN IF props[i + 1].voteCount > highestVotes
         THEN winnerLoop(props, i + 1, props[i + 1].voteCount, i)
         ELSE winnerLoop(props, i + 1, highestVotes, winningId)
    ELSE winningId

calculateWinner == winnerLoop(proposals, 0, 0, 0)


(***************************************************************************)
(* GovernanceVoting: modifiers                                             *)
(***************************************************************************)
\* a modifier wraps the function body (the "_;" of the source)
\* mutant: the caller is not checked
onlyAdmin_Anyone(sender, body) == body

onlyAdmin(sender, body) == require(sender = admin, "Only admin can perform this action", body)

\* mutant: the phase guard is missing
inPhase_Ignored(expected, body) == body

inPhase(expected, body) == require(phase = expected, "Action not allowed in current phase", body)

\* mutant: the circuit breaker is not consulted
whenNotPaused_Ignored(body) == body

whenNotPaused(body) == require(~ paused, "Pausable: paused", body)

whenPaused(body) == require(paused, "Pausable: not paused", body)

\* mutant: only the time window is checked, not the phase
votingOpen_WindowOnly(body) ==
    require(now >= votingStartTime, "Voting has not started yet",
    require(now <= votingEndTime, "Voting period has ended",
    body))

\* mutant: the end of the voting window is not checked
votingOpen_NoDeadline(body) ==
    require(phase = "Voting", "Voting is not active",
    require(now >= votingStartTime, "Voting has not started yet",
    body))

votingOpen(body) ==
    require(phase = "Voting", "Voting is not active",
    require(now >= votingStartTime, "Voting has not started yet",
    require(now <= votingEndTime, "Voting period has ended",
    body)))

(***************************************************************************)
(* GovernanceVoting: admin functions                                       *)
(***************************************************************************)
\* mutant: an empty title is accepted
addProposalErr_EmptyAllowed(sender, title) ==
    onlyAdmin(sender, inPhase("Setup", whenNotPaused(OK)))

addProposalErr(sender, title) ==
    onlyAdmin(sender, inPhase("Setup", whenNotPaused(
    require(title # "", "Proposal title cannot be empty",
    OK))))

addProposal(sender, title, description) ==
    /\ contract = "GovernanceVoting"
    /\ LET err == addProposalErr(sender, title) IN
       IF err = OK
       THEN /\ proposals' = Append(proposals, Proposal(title, description))
            /\ emit(<<"ProposalAdded", Len(proposals), title>>)
            /\ UNCHANGED <<qvstate, listening, contract, phase, paused, votingStartTime,
                           votingEndTime,
                           voters, voterAddresses, wstate, now>>
       ELSE revert(err)

\* mutant: the admin is accepted as a voter
whitelistVoterErr_AdminAllowed(sender, account, weight) ==
    onlyAdmin(sender, inPhase("Setup", whenNotPaused(
    require(account # ZERO_ADDRESS, "Cannot whitelist zero address",
    require(weight > 0, "Weight must be greater than zero",
    OK)))))

\* mutant: a weight of zero is accepted
whitelistVoterErr_ZeroWeight(sender, account, weight) ==
    onlyAdmin(sender, inPhase("Setup", whenNotPaused(
    require(account # ZERO_ADDRESS, "Cannot whitelist zero address",
    require(account # admin, "Admin cannot be a voter",
    OK)))))

whitelistVoterErr(sender, account, weight) ==
    onlyAdmin(sender, inPhase("Setup", whenNotPaused(
    require(account # ZERO_ADDRESS, "Cannot whitelist zero address",
    require(weight > 0, "Weight must be greater than zero",
    require(account # admin, "Admin cannot be a voter",
    OK))))))

\* mutant: an already whitelisted voter only gets the new weight
whitelistVoter_KeepsRecord(sender, account, weight) ==
    /\ contract = "GovernanceVoting"
    /\ LET err == whitelistVoterErr(sender, account, weight) IN
       IF err = OK
       THEN /\ voterAddresses' = IF ~ voters[account].whitelisted
                                 THEN Append(voterAddresses, account)
                                 ELSE voterAddresses
            /\ voters' = [voters EXCEPT ![account].whitelisted = TRUE,
                                        ![account].weight = weight]
            /\ emit(<<"VoterWhitelisted", account, weight>>)
            /\ UNCHANGED <<qvstate, listening, contract, phase, paused, votingStartTime,
                           votingEndTime,
                           proposals, wstate, now>>
       ELSE revert(err)

\* mutant: re-whitelisting also takes the voter's weight back from its delegate
whitelistVoter_RepairsDelegate(sender, account, weight) ==
    /\ contract = "GovernanceVoting"
    /\ LET err == whitelistVoterErr(sender, account, weight) IN
       IF err = OK
       THEN /\ voterAddresses' = IF ~ voters[account].whitelisted
                                 THEN Append(voterAddresses, account)
                                 ELSE voterAddresses
            /\ voters' = [a \in Addresses |->
                            IF a = account
                            THEN [whitelisted |-> TRUE, weight |-> weight, voted |-> FALSE,
                                  votedProposalId |-> 0, delegate |-> ZERO_ADDRESS,
                                  delegatedWeight |-> 0]
                            ELSE IF a # ZERO_ADDRESS /\ a = voters[account].delegate
                            THEN [voters[a] EXCEPT !.delegatedWeight = @ - voters[account].weight]
                            ELSE voters[a]]
            /\ emit(<<"VoterWhitelisted", account, weight>>)
            /\ UNCHANGED <<qvstate, listening, contract, phase, paused, votingStartTime,
                           votingEndTime,
                           proposals, wstate, now>>
       ELSE revert(err)

\* mutant: the account is pushed to the voter list on every call
whitelistVoter_AlwaysPushes(sender, account, weight) ==
    /\ contract = "GovernanceVoting"
    /\ LET err == whitelistVoterErr(sender, account, weight) IN
       IF err = OK
       THEN /\ voterAddresses' = Append(voterAddresses, account)
            /\ voters' = [voters EXCEPT ![account] =
                            [whitelisted |-> TRUE, weight |-> weight, voted |-> FALSE,
                             votedProposalId |-> 0, delegate |-> ZERO_ADDRESS,
                             delegatedWeight |-> 0]]
            /\ emit(<<"VoterWhitelisted", account, weight>>)
            /\ UNCHANGED <<qvstate, listening, contract, phase, paused, votingStartTime,
                           votingEndTime,
                           proposals, wstate, now>>
       ELSE revert(err)

whitelistVoter(sender, account, weight) ==
    /\ contract = "GovernanceVoting"
    /\ LET err == whitelistVoterErr(sender, account, weight) IN
       IF err = OK
       THEN /\ voterAddresses' = IF ~ voters[account].whitelisted
                                 THEN Append(voterAddresses, account)
                                 ELSE voterAddresses
            /\ voters' = [voters EXCEPT ![account] =
                            [whitelisted |-> TRUE, weight |-> weight, voted |-> FALSE,
                             votedProposalId |-> 0, delegate |-> ZERO_ADDRESS,
                             delegatedWeight |-> 0]]
            /\ emit(<<"VoterWhitelisted", account, weight>>)
            /\ UNCHANGED <<qvstate, listening, contract, phase, paused, votingStartTime,
                           votingEndTime,
                           proposals, wstate, now>>
       ELSE revert(err)

startVotingErr(sender, durationInMinutes) ==
    onlyAdmin(sender, inPhase("Setup", whenNotPaused(
    require(Len(proposals) > 0, "Add at least one proposal first",
    require(Len(voterAddresses) > 0, "Whitelist at least one voter first",
    require(durationInMinutes > 0, "Duration must be greater than zero",
    require(durationInMinutes * MINUTES <= MAX_UINT, PANIC,
    require(now + durationInMinutes * MINUTES <= MAX_UINT, PANIC,
    OK))))))))

\* mutant: the duration is not added to the end of the window
startVoting_ZeroWindow(sender, durationInMinutes) ==
    /\ contract = "GovernanceVoting"
    /\ LET err == startVotingErr(sender, durationInMinutes) IN
       IF err = OK
       THEN /\ phase' = "Voting"
            /\ votingStartTime' = now
            /\ votingEndTime' = now
            /\ emit(<<"VotingStarted", votingStartTime', votingEndTime'>>)
            /\ UNCHANGED <<qvstate, listening, contract, paused, proposals, voters, voterAddresses, wstate, now>>
       ELSE revert(err)

\* mutant: the window is set but the phase is not moved to Voting
startVoting_StaysInSetup(sender, durationInMinutes) ==
    /\ contract = "GovernanceVoting"
    /\ LET err == startVotingErr(sender, durationInMinutes) IN
       IF err = OK
       THEN /\ votingStartTime' = now
            /\ votingEndTime' = now + durationInMinutes * MINUTES
            /\ emit(<<"VotingStarted", votingStartTime', votingEndTime'>>)
            /\ UNCHANGED <<qvstate, listening, contract, phase, paused, proposals, voters, voterAddresses,
                           wstate, now>>
       ELSE revert(err)

startVoting(sender, durationInMinutes) ==
    /\ contract = "GovernanceVoting"
    /\ LET err == startVotingErr(sender, durationInMinutes) IN
       IF err = OK
       THEN /\ phase' = "Voting"
            /\ votingStartTime' = now
            /\ votingEndTime' = now + durationInMinutes * MINUTES
            /\ emit(<<"VotingStarted", votingStartTime', votingEndTime'>>)
            /\ UNCHANGED <<qvstate, listening, contract, paused, proposals, voters, voterAddresses, wstate, now>>
       ELSE revert(err)

closeVotingErr(sender) ==
    onlyAdmin(sender, inPhase("Voting", whenNotPaused(
    require(calculateWinner < Len(proposals), OUT_OF_BOUNDS,
    OK))))

\* mutant: closing the vote re-opens the setup phase
closeVoting_Reopens(sender) ==
    /\ contract = "GovernanceVoting"
    /\ LET err == closeVotingErr(sender) IN
       IF err = OK
       THEN /\ phase' = "Setup"
            /\ emit(<<"VotingEnded", calculateWinner, proposals[calculateWinner + 1].title>>)
            /\ UNCHANGED <<qvstate, listening, contract, paused, votingStartTime, votingEndTime, proposals,
                           voters, voterAddresses, wstate, now>>
       ELSE revert(err)

\* mutant: closing the vote also clears the tallies
closeVoting_ResetsTallies(sender) ==
    /\ contract = "GovernanceVoting"
    /\ LET err == closeVotingErr(sender) IN
       IF err = OK
       THEN /\ phase' = "Finished"
            /\ proposals' = [i \in 1..Len(proposals) |->
                                [proposals[i] EXCEPT !.voteCount = 0, !.rawVoteCount = 0]]
            /\ emit(<<"VotingEnded", calculateWinner, proposals[calculateWinner + 1].title>>)
            /\ UNCHANGED <<qvstate, listening, contract, paused, votingStartTime, votingEndTime,
                           voters, voterAddresses, wstate, now>>
       ELSE revert(err)

closeVoting(sender) ==
    /\ contract = "GovernanceVoting"
    /\ LET err == closeVotingErr(sender) IN
       IF err = OK
       THEN /\ phase' = "Finished"
            /\ emit(<<"VotingEnded", calculateWinner, proposals[calculateWinner + 1].title>>)
            /\ UNCHANGED <<qvstate, listening, contract, paused, votingStartTime, votingEndTime, proposals,
                           voters, voterAddresses, wstate, now>>
       ELSE revert(err)

\* mutant: the expiry path is not gated by the circuit breaker
finalizeIfExpiredErr_NotGated(sender) ==
    inPhase("Voting",
    require(now > votingEndTime, "Voting period not yet ended",
    require(calculateWinner < Len(proposals), OUT_OF_BOUNDS,
    OK)))

\* mutant: the expiry test is >=, so the last instant of the window counts as expired
finalizeIfExpiredErr_AtDeadline(sender) ==
    inPhase("Voting", whenNotPaused(
    require(now >= votingEndTime, "Voting period not yet ended",
    require(calculateWinner < Len(proposals), OUT_OF_BOUNDS,
    OK))))

finalizeIfExpiredErr(sender) ==
    inPhase("Voting", whenNotPaused(
    require(now > votingEndTime, "Voting period not yet ended",
    require(calculateWinner < Len(proposals), OUT_OF_BOUNDS,
    OK))))

\* mutant: the expired election is left in phase Voting
finalizeIfExpired_KeepsVoting(sender) ==
    /\ contract = "GovernanceVoting"
    /\ LET err == finalizeIfExpiredErr(sender) IN
       IF err = OK
       THEN /\ phase' = "Voting"
            /\ emit(<<"VotingEnded", calculateWinner, proposals[calculateWinner + 1].title>>)
            /\ UNCHANGED <<qvstate, listening, contract, paused, votingStartTime, votingEndTime, proposals,
                           voters, voterAddresses, wstate, now>>
       ELSE revert(err)

finalizeIfExpired(sender) ==
    /\ contract = "GovernanceVoting"
    /\ LET err == finalizeIfExpiredErr(sender) IN
       IF err = OK
       THEN /\ phase' = "Finished"
            /\ emit(<<"VotingEnded", calculateWinner, proposals[calculateWinner + 1].title>>)
            /\ UNCHANGED <<qvstate, listening, contract, paused, votingStartTime, votingEndTime, proposals,
                           voters, voterAddresses, wstate, now>>
       ELSE revert(err)

pauseElectionErr(sender) == onlyAdmin(sender, whenNotPaused(OK))

\* mutant: pausing also ends the election
pauseElection_ClosesVoting(sender) ==
    /\ contract = "GovernanceVoting"
    /\ LET err == pauseElectionErr(sender) IN
       IF err = OK
       THEN /\ paused' = TRUE
            /\ phase' = "Finished"
            /\ emit(<<"Paused", sender>>)
            /\ UNCHANGED <<qvstate, listening, contract, votingStartTime, votingEndTime, proposals,
                           voters, voterAddresses, wstate, now>>
       ELSE revert(err)

pauseElection(sender) ==
    /\ contract = "GovernanceVoting"
    /\ LET err == pauseElectionErr(sender) IN
       IF err = OK
       THEN /\ paused' = TRUE
            /\ emit(<<"Paused", sender>>)
            /\ UNCHANGED <<qvstate, listening, contract, phase, votingStartTime, votingEndTime, proposals,
                           voters, voterAddresses, wstate, now>>
       ELSE revert(err)

resumeElectionErr(sender) == onlyAdmin(sender, whenPaused(OK))

resumeElection(sender) ==
    /\ contract = "GovernanceVoting"
    /\ LET err == resumeElectionErr(sender) IN
       IF err = OK
       THEN /\ paused' = FALSE
            /\ emit(<<"Unpaused", sender>>)
            /\ UNCHANGED <<qvstate, listening, contract, phase, votingStartTime, votingEndTime, proposals,
                           voters, voterAddresses, wstate, now>>
       ELSE revert(err)

(***************************************************************************)
(* GovernanceVoting: voter functions                                       *)
(***************************************************************************)
\* mutant: the old delegate is not debited on re-delegation or removal
delegateDebited_NoDebit(sender) == voters

\* storage after the old delegate (if any) has been debited
\* mutant: the old delegate is debited with the weight the sender received, not its own
delegateDebited_ReceivedWeight(sender) ==
    IF voters[sender].delegate # ZERO_ADDRESS
    THEN [voters EXCEPT
            ![voters[sender].delegate].delegatedWeight = @ - voters[sender].delegatedWeight]
    ELSE voters

delegateDebited(sender) ==
    IF voters[sender].delegate # ZERO_ADDRESS
    THEN [voters EXCEPT ![voters[sender].delegate].delegatedWeight = @ - voters[sender].weight]
    ELSE voters

\* mutant: the target of a delegation need not be whitelisted
delegateErr_AnyTarget(sender, to) ==
    inPhase("Setup", whenNotPaused(
    require(voters[sender].whitelisted, "You are not a whitelisted voter",
    require(~ voters[sender].voted, "You have already voted",
    require(to # sender, "Cannot delegate to yourself",
    require(to # ZERO_ADDRESS, "Cannot delegate to zero address",
    require(delegateDebited(sender)[voters[sender].delegate].delegatedWeight >= 0, PANIC,
    require(delegateDebited(sender)[to].delegatedWeight + voters[sender].weight <= MAX_UINT,
            PANIC,
    OK))))))))

delegateErr(sender, to) ==
    inPhase("Setup", whenNotPaused(
    require(voters[sender].whitelisted, "You are not a whitelisted voter",
    require(~ voters[sender].voted, "You have already voted",
    require(to # sender, "Cannot delegate to yourself",
    require(to # ZERO_ADDRESS, "Cannot delegate to zero address",
    require(voters[to].whitelisted, "Delegate is not a whitelisted voter",
    require(delegateDebited(sender)[voters[sender].delegate].delegatedWeight >= 0, PANIC,
    require(delegateDebited(sender)[to].delegatedWeight + voters[sender].weight <= MAX_UINT,
            PANIC,
    OK)))))))))

\* mutant: the new delegate is not credited with the sender's weight
delegate_NoCredit(sender, to) ==
    /\ contract = "GovernanceVoting"
    /\ LET err == delegateErr(sender, to) IN
       IF err = OK
       THEN /\ voters' = [delegateDebited(sender) EXCEPT ![sender].delegate = to]
            /\ emit(<<"VoteDelegated", sender, to, voters[sender].weight>>)
            /\ UNCHANGED <<qvstate, listening, contract, phase, paused, votingStartTime,
                           votingEndTime,
                           proposals, voterAddresses, wstate, now>>
       ELSE revert(err)

\* mutant: the weight the sender received is forwarded to its delegate
delegate_Forwarding(sender, to) ==
    /\ contract = "GovernanceVoting"
    /\ LET err == delegateErr(sender, to) IN
       IF err = OK
       THEN /\ voters' = [delegateDebited(sender) EXCEPT
                            ![sender].delegate = to,
                            ![to].delegatedWeight =
                                @ + voters[sender].weight + voters[sender].delegatedWeight]
            /\ emit(<<"VoteDelegated", sender, to, voters[sender].weight>>)
            /\ UNCHANGED <<qvstate, listening, contract, phase, paused, votingStartTime,
                           votingEndTime,
                           proposals, voterAddresses, wstate, now>>
       ELSE revert(err)

delegate(sender, to) ==
    /\ contract = "GovernanceVoting"
    /\ LET err == delegateErr(sender, to) IN
       IF err = OK
       THEN /\ voters' = [delegateDebited(sender) EXCEPT
                            ![sender].delegate = to,
                            ![to].delegatedWeight = @ + voters[sender].weight]
            /\ emit(<<"VoteDelegated", sender, to, voters[sender].weight>>)
            /\ UNCHANGED <<qvstate, listening, contract, phase, paused, votingStartTime,
                           votingEndTime,
                           proposals, voterAddresses, wstate, now>>
       ELSE revert(err)

\* the voter records a successful removeDelegate by sender leaves
afterRemoveDelegate(sender) == [delegateDebited(sender) EXCEPT ![sender].delegate = ZERO_ADDRESS]

removeDelegateErr(sender) ==
    inPhase("Setup", whenNotPaused(
    require(voters[sender].whitelisted, "You are not a whitelisted voter",
    require(voters[sender].delegate # ZERO_ADDRESS, "You have not delegated",
    require(delegateDebited(sender)[voters[sender].delegate].delegatedWeight >= 0, PANIC,
    OK)))))

removeDelegate(sender) ==
    /\ contract = "GovernanceVoting"
    /\ LET err == removeDelegateErr(sender) IN
       IF err = OK
       THEN /\ voters' = afterRemoveDelegate(sender)
            /\ emit(<<"VoteDelegated", sender, ZERO_ADDRESS, voters[sender].weight>>)
            /\ UNCHANGED <<qvstate, listening, contract, phase, paused, votingStartTime,
                           votingEndTime,
                           proposals, voterAddresses, wstate, now>>
       ELSE revert(err)

\* mutant: the delegated weight is left out of the voting power
totalWeight_OwnOnly(sender) == voters[sender].weight

totalWeight(sender) == voters[sender].weight + voters[sender].delegatedWeight

\* tally of the addressed proposal, 0 when the id is out of range
tallyOf(props, proposalId, field) ==
    IF proposalId < Len(props) THEN props[proposalId + 1][field] ELSE 0

\* mutant: the check that the sender has not voted yet is missing
voteErr_NoVotedCheck(sender, proposalId) ==
    votingOpen(whenNotPaused(
    require(proposalId < Len(proposals), "Invalid proposal ID",
    require(voters[sender].whitelisted, "You are not a whitelisted voter",
    require(voters[sender].delegate = ZERO_ADDRESS, "You have delegated your vote",
    require(totalWeight(sender) <= MAX_UINT, PANIC,
    require(totalWeight(sender) > 0, "No voting power",
    require(calculateQuadraticVotes(totalWeight(sender)) >= 0, PANIC,
    require(tallyOf(proposals, proposalId, "voteCount")
                + calculateQuadraticVotes(totalWeight(sender)) <= MAX_UINT, PANIC,
    require(tallyOf(proposals, proposalId, "rawVoteCount") + totalWeight(sender) <= MAX_UINT,
            PANIC,
    OK))))))))))

\* mutant: the voted check comes first, before the modifiers and the id check
voteErr_VotedCheckedFirst(sender, proposalId) ==
    require(~ voters[sender].voted, "You have already voted",
    votingOpen(whenNotPaused(
    require(proposalId < Len(proposals), "Invalid proposal ID",
    require(voters[sender].whitelisted, "You are not a whitelisted voter",
    require(voters[sender].delegate = ZERO_ADDRESS, "You have delegated your vote",
    require(totalWeight(sender) <= MAX_UINT, PANIC,
    require(totalWeight(sender) > 0, "No voting power",
    require(calculateQuadraticVotes(totalWeight(sender)) >= 0, PANIC,
    require(tallyOf(proposals, proposalId, "voteCount")
                + calculateQuadraticVotes(totalWeight(sender)) <= MAX_UINT, PANIC,
    require(tallyOf(proposals, proposalId, "rawVoteCount") + totalWeight(sender) <= MAX_UINT,
            PANIC,
    OK)))))))))))

\* mutant: a voter that has delegated may still vote
voteErr_DelegatorMayVote(sender, proposalId) ==
    votingOpen(whenNotPaused(
    require(proposalId < Len(proposals), "Invalid proposal ID",
    require(voters[sender].whitelisted, "You are not a whitelisted voter",
    require(~ voters[sender].voted, "You have already voted",
    require(totalWeight(sender) <= MAX_UINT, PANIC,
    require(totalWeight(sender) > 0, "No voting power",
    require(calculateQuadraticVotes(totalWeight(sender)) >= 0, PANIC,
    require(tallyOf(proposals, proposalId, "voteCount")
                + calculateQuadraticVotes(totalWeight(sender)) <= MAX_UINT, PANIC,
    require(tallyOf(proposals, proposalId, "rawVoteCount") + totalWeight(sender) <= MAX_UINT,
            PANIC,
    OK))))))))))

\* mutant: the proposal id is not checked against the number of proposals
voteErr_NoIdCheck(sender, proposalId) ==
    votingOpen(whenNotPaused(
    require(voters[sender].whitelisted, "You are not a whitelisted voter",
    require(~ voters[sender].voted, "You have already voted",
    require(voters[sender].delegate = ZERO_ADDRESS, "You have delegated your vote",
    require(totalWeight(sender) <= MAX_UINT, PANIC,
    require(totalWeight(sender) > 0, "No voting power",
    require(calculateQuadraticVotes(totalWeight(sender)) >= 0, PANIC,
    require(tallyOf(proposals, proposalId, "voteCount")
                + calculateQuadraticVotes(totalWeight(sender)) <= MAX_UINT, PANIC,
    require(tallyOf(proposals, proposalId, "rawVoteCount") + totalWeight(sender) <= MAX_UINT,
            PANIC,
    OK))))))))))

voteErr(sender, proposalId) ==
    votingOpen(whenNotPaused(
    require(proposalId < Len(proposals), "Invalid proposal ID",
    require(voters[sender].whitelisted, "You are not a whitelisted voter",
    require(~ voters[sender].voted, "You have already voted",
    require(voters[sender].delegate = ZERO_ADDRESS, "You have delegated your vote",
    require(totalWeight(sender) <= MAX_UINT, PANIC,
    require(totalWeight(sender) > 0, "No voting power",
    require(calculateQuadraticVotes(totalWeight(sender)) >= 0, PANIC,
    require(tallyOf(proposals, proposalId, "voteCount")
                + calculateQuadraticVotes(totalWeight(sender)) <= MAX_UINT, PANIC,
    require(tallyOf(proposals, proposalId, "rawVoteCount") + totalWeight(sender) <= MAX_UINT,
            PANIC,
    OK)))))))))))

\* mutant: the ballot is counted but the voter is not marked as having voted
vote_NoVotedFlag(sender, proposalId) ==
    /\ contract = "GovernanceVoting"
    /\ LET err == voteErr(sender, proposalId) IN
       IF err = OK
       THEN /\ voters' = [voters EXCEPT ![sender].votedProposalId = proposalId]
            /\ proposals' = [proposals EXCEPT
                   ![proposalId + 1].voteCount =
                        @ + calculateQuadraticVotes(totalWeight(sender)),
                   ![proposalId + 1].rawVoteCount = @ + totalWeight(sender)]
            /\ emit(<<"Voted", sender, proposalId,
                      calculateQuadraticVotes(totalWeight(sender)), totalWeight(sender)>>)
            /\ UNCHANGED <<qvstate, listening, contract, phase, paused, votingStartTime,
                           votingEndTime,
                           voterAddresses, wstate, now>>
       ELSE revert(err)

\* mutant: the whole voting power is added to the quadratic tally
vote_LinearTally(sender, proposalId) ==
    /\ contract = "GovernanceVoting"
    /\ LET err == voteErr(sender, proposalId) IN
       IF err = OK
       THEN /\ voters' = [voters EXCEPT ![sender].voted = TRUE,
                                        ![sender].votedProposalId = proposalId]
            /\ proposals' = [proposals EXCEPT
                   ![proposalId + 1].voteCount = @ + totalWeight(sender),
                   ![proposalId + 1].rawVoteCount = @ + totalWeight(sender)]
            /\ emit(<<"Voted", sender, proposalId,
                      calculateQuadraticVotes(totalWeight(sender)), totalWeight(sender)>>)
            /\ UNCHANGED <<qvstate, listening, contract, phase, paused, votingStartTime,
                           votingEndTime,
                           voterAddresses, wstate, now>>
       ELSE revert(err)

vote(sender, proposalId) ==
    /\ contract = "GovernanceVoting"
    /\ LET err == voteErr(sender, proposalId) IN
       IF err = OK
       THEN /\ voters' = [voters EXCEPT ![sender].voted = TRUE,
                                        ![sender].votedProposalId = proposalId]
            /\ proposals' = [proposals EXCEPT
                   ![proposalId + 1].voteCount =
                        @ + calculateQuadraticVotes(totalWeight(sender)),
                   ![proposalId + 1].rawVoteCount = @ + totalWeight(sender)]
            /\ emit(<<"Voted", sender, proposalId,
                      calculateQuadraticVotes(totalWeight(sender)), totalWeight(sender)>>)
            /\ UNCHANGED <<qvstate, listening, contract, phase, paused, votingStartTime,
                           votingEndTime,
                           voterAddresses, wstate, now>>
       ELSE revert(err)

(***************************************************************************)
(* GovernanceVoting: results (views)                                       *)
(***************************************************************************)
winningProposalErr ==
    inPhase("Finished",
    require(calculateWinner < Len(proposals), OUT_OF_BOUNDS,
    OK))

winningProposal == calculateWinner

getAllResultsErr == inPhase("Finished", OK)

(***************************************************************************)
(* WeightedElection                                                        *)
(***************************************************************************)
W_onlyAdmin(sender, body) == require(sender = admin, "Only admin", body)

W_inPhase(expected, body) == require(wPhase = expected, "Wrong phase", body)

W_addProposalErr(sender, title) ==
    W_onlyAdmin(sender, W_inPhase("Setup",
    require(title # "", "Empty title",
    OK)))

W_addProposal(sender, title) ==
    /\ contract = "WeightedElection"
    /\ LET err == W_addProposalErr(sender, title) IN
       IF err = OK
       THEN /\ wProposals' = Append(wProposals, W_Proposal(title))
            /\ emit(<<"ProposalAdded", Len(wProposals), title>>)
            /\ UNCHANGED <<qvstate, listening, contract, gstate, wPhase, wVoters, now>>
       ELSE revert(err)

W_whitelistVoterErr(sender, account, weight) ==
    W_onlyAdmin(sender, W_inPhase("Setup",
    require(account # ZERO_ADDRESS, "Zero address",
    require(weight > 0, "Zero weight",
    OK))))

W_whitelistVoter(sender, account, weight) ==
    /\ contract = "WeightedElection"
    /\ LET err == W_whitelistVoterErr(sender, account, weight) IN
       IF err = OK
       THEN /\ wVoters' = [wVoters EXCEPT ![account] =
                             [whitelisted |-> TRUE, weight |-> weight, voted |-> FALSE,
                              vote |-> 0]]
            /\ emit(<<"VoterWhitelisted", account, weight>>)
            /\ UNCHANGED <<qvstate, listening, contract, gstate, wPhase, wProposals, now>>
       ELSE revert(err)

W_startVotingErr(sender) ==
    W_onlyAdmin(sender, W_inPhase("Setup",
    require(Len(wProposals) > 0, "No proposals",
    OK)))

W_startVoting(sender) ==
    /\ contract = "WeightedElection"
    /\ LET err == W_startVotingErr(sender) IN
       IF err = OK
       THEN /\ wPhase' = "Voting"
            /\ emit(<<"PhaseAdvanced", wPhase'>>)
            /\ UNCHANGED <<qvstate, listening, contract, gstate, wProposals, wVoters, now>>
       ELSE revert(err)

W_closeVotingErr(sender) == W_onlyAdmin(sender, W_inPhase("Voting", OK))

W_closeVoting(sender) ==
    /\ contract = "WeightedElection"
    /\ LET err == W_closeVotingErr(sender) IN
       IF err = OK
       THEN /\ wPhase' = "Finished"
            /\ emit(<<"PhaseAdvanced", wPhase'>>)
            /\ UNCHANGED <<qvstate, listening, contract, gstate, wProposals, wVoters, now>>
       ELSE revert(err)

W_voteErr(sender, proposalId) ==
    W_inPhase("Voting",
    require(proposalId < Len(wProposals), "Invalid proposal",
    require(wVoters[sender].whitelisted, "Not whitelisted",
    require(~ wVoters[sender].voted, "Already voted",
    require(tallyOf(wProposals, proposalId, "voteCount") + wVoters[sender].weight <= MAX_UINT,
            PANIC,
    OK)))))

\* mutant: every vote counts for one, whatever the weight
W_vote_OneVoteEach(sender, proposalId) ==
    /\ contract = "WeightedElection"
    /\ LET err == W_voteErr(sender, proposalId) IN
       IF err = OK
       THEN /\ wVoters' = [wVoters EXCEPT ![sender].voted = TRUE,
                                          ![sender].vote = proposalId]
            /\ wProposals' = [wProposals EXCEPT ![proposalId + 1].voteCount = @ + 1]
            /\ emit(<<"Voted", sender, proposalId, wVoters[sender].weight>>)
            /\ UNCHANGED <<qvstate, listening, contract, gstate, wPhase, now>>
       ELSE revert(err)

W_vote(sender, proposalId) ==
    /\ contract = "WeightedElection"
    /\ LET err == W_voteErr(sender, proposalId) IN
       IF err = OK
       THEN /\ wVoters' = [wVoters EXCEPT ![sender].voted = TRUE,
                                          ![sender].vote = proposalId]
            /\ wProposals' = [wProposals EXCEPT
                   ![proposalId + 1].voteCount = @ + wVoters[sender].weight]
            /\ emit(<<"Voted", sender, proposalId, wVoters[sender].weight>>)
            /\ UNCHANGED <<qvstate, listening, contract, gstate, wPhase, now>>
       ELSE revert(err)

W_winningProposalErr == W_inPhase("Finished", OK)

W_winningProposal == winnerLoop(wProposals, 0, 0, 0)

(***************************************************************************)
(* The clock, construction and the next-state relation                     *)
(***************************************************************************)
\* block.timestamp advances between transactions; the clock is followed from the
\* start of the voting window until it is MaxMinutes past its end
Tick ==
    /\ phase # "Setup"
    /\ now + MINUTES <= votingEndTime + MINUTES * MaxMinutes
    /\ now' = now + MINUTES
    /\ UNCHANGED <<qvstate, logstate, contract, gstate, wstate>>

\* _proposals after the constructor's loop over proposalTitles
\* the constructor reverts (nothing is deployed) when _addProposal rejects a title
constructorErr(proposalTitles) ==
    require(\A i \in 1..Len(proposalTitles) : proposalTitles[i] # "",
            "Proposal title cannot be empty",
    OK)

W_constructorErr(proposalTitles) ==
    require(\A i \in 1..Len(proposalTitles) : proposalTitles[i] # "", "Empty title",
    OK)

\* mutant: the initial proposals are stored in reverse order
RECURSIVE constructed_Reversed(_)
constructed_Reversed(proposalTitles) ==
    IF proposalTitles = <<>> THEN <<>>
    ELSE Append(constructed_Reversed(Tail(proposalTitles)), Proposal(Head(proposalTitles), ""))

RECURSIVE constructed(_)
constructed(proposalTitles) ==
    IF proposalTitles = <<>> THEN <<>>
    ELSE Append(constructed(SubSeq(proposalTitles, 1, Len(proposalTitles) - 1)),
                Proposal(proposalTitles[Len(proposalTitles)], ""))

RECURSIVE W_constructed(_)
W_constructed(proposalTitles) ==
    IF proposalTitles = <<>> THEN <<>>
    ELSE Append(W_constructed(SubSeq(proposalTitles, 1, Len(proposalTitles) - 1)),
                W_Proposal(proposalTitles[Len(proposalTitles)]))

Init ==
    /\ contract \in {"GovernanceVoting", "WeightedElection"}
    /\ \E proposalTitles \in TitleSeqs :
          /\ IF contract = "GovernanceVoting"
             THEN constructorErr(proposalTitles) = OK
             ELSE W_constructorErr(proposalTitles) = OK
          /\ proposals = IF contract = "GovernanceVoting"
                         THEN constructed(proposalTitles) ELSE <<>>
          /\ wProposals = IF contract = "WeightedElection"
                          THEN W_constructed(proposalTitles) ELSE <<>>
    /\ phase = "Setup"
    /\ paused = FALSE
    /\ votingStartTime = 0
    /\ votingEndTime = 0
    /\ voters = [a \in Addresses |-> Voter]
    /\ voterAddresses = <<>>
    /\ wPhase = "Setup"
    /\ wVoters = [a \in Addresses |-> W_Voter]
    /\ now = 1
    /\ qvWeight = 0
    /\ qvResult = -2
    /\ listening = FALSE
    /\ events = <<>>

whitelistCalls ==
    \E sender \in Accounts, account \in Addresses, weight \in WeightInputs :
        whitelistVoter(sender, account, weight)

\* whitelistVoter restricted to accounts that are not whitelisted yet
whitelistOnceCalls ==
    \E sender \in Accounts, account \in Addresses, weight \in WeightInputs :
        ~ voters[account].whitelisted /\ whitelistVoter(sender, account, weight)

otherCalls ==
    \/ \E sender \in Accounts, title \in TitleInputs :
          addProposal(sender, title, "") /\ Len(proposals') <= MaxProposals
    \/ \E sender \in Accounts, durationInMinutes \in DurationInputs :
          startVoting(sender, durationInMinutes)
    \/ \E sender \in Accounts : closeVoting(sender)
    \/ \E sender \in Accounts : finalizeIfExpired(sender)
    \/ \E sender \in Accounts : pauseElection(sender)
    \/ \E sender \in Accounts : resumeElection(sender)
    \/ \E sender \in Accounts, to \in Addresses :
          delegate(sender, to) /\ \A a \in Addresses : voters'[a].delegatedWeight <= MaxDelegated
    \/ \E sender \in Accounts : removeDelegate(sender)
    \/ \E sender \in Accounts, proposalId \in ProposalIdInputs : vote(sender, proposalId)
    \/ \E sender \in Accounts, title \in TitleInputs :
          W_addProposal(sender, title) /\ Len(wProposals') <= MaxProposals
    \/ \E sender \in Accounts, account \in Addresses, weight \in WeightInputs :
          W_whitelistVoter(sender, account, weight)
    \/ \E sender \in Accounts : W_startVoting(sender)
    \/ \E sender \in Accounts : W_closeVoting(sender)
    \/ \E sender \in Accounts, proposalId \in ProposalIdInputs : W_vote(sender, proposalId)
    \/ Tick

Next == whitelistCalls \/ otherCalls

Spec == Init /\ [][Next]_vars

\* every voter is whitelisted at most once (no re-whitelisting)
NextOnce == whitelistOnceCalls \/ otherCalls

SpecOnce == Init /\ [][NextOnce]_vars

\* calculateQuadraticVotes as a call of its own, on every representable argument
InitQuadratic ==
    /\ contract = "GovernanceVoting"
    /\ proposals = <<>>
    /\ wProposals = <<>>
    /\ phase = "Setup"
    /\ paused = FALSE
    /\ votingStartTime = 0
    /\ votingEndTime = 0
    /\ voters = [a \in Addresses |-> Voter]
    /\ voterAddresses = <<>>
    /\ wPhase = "Setup"
    /\ wVoters = [a \in Addresses |-> W_Voter]
    /\ now = 1
    /\ qvWeight \in 0..MAX_UINT
    /\ qvResult = -2
    /\ listening = FALSE
    /\ events = <<>>

callCalculateQuadraticVotes ==
    /\ qvResult = -2
    /\ qvResult' = calculateQuadraticVotes(qvWeight)
    /\ UNCHANGED <<logstate, contract, gstate, wstate, now, qvWeight>>

NextQuadratic == callCalculateQuadraticVotes

SpecQuadratic == InitQuadratic /\ [][NextQuadratic]_vars


\* three voters besides the admin, whitelisted once each, delegating among themselves
ChainVoters == {2, 3, 4}

InitChain ==
    /\ contract = "GovernanceVoting"
    /\ proposals = constructed(<<"A">>)
    /\ wProposals = <<>>
    /\ phase = "Setup"
    /\ paused = FALSE
    /\ votingStartTime = 0
    /\ votingEndTime = 0
    /\ voters = [a \in Addresses \cup ChainVoters |-> Voter]
    /\ voterAddresses = <<>>
    /\ wPhase = "Setup"
    /\ wVoters = [a \in Addresses |-> W_Voter]
    /\ now = 1
    /\ qvWeight = 0
    /\ qvResult = -2
    /\ listening = FALSE
    /\ events = <<>>

NextChain ==
    \/ \E account \in ChainVoters, weight \in WeightInputs :
          ~ voters[account].whitelisted /\ whitelistVoter(admin, account, weight)
    \/ \E sender \in ChainVoters, to \in ChainVoters : delegate(sender, to)
    \/ \E sender \in ChainVoters : removeDelegate(sender)

SpecChain == InitChain /\ [][NextChain]_vars

\* the clock keeps advancing, and somebody calls finalizeIfExpired when it can succeed
SpecLive ==
    /\ Init
    /\ [][Next]_vars
    /\ WF_vars(Tick)
    /\ WF_vars(\E sender \in Accounts : finalizeIfExpired(sender))

\* the records of a deployment: one ProposalAdded per title, then ElectionCreated
electionName == "Election"

constructorEvents(proposalTitles) ==
    [i \in 1..Len(proposalTitles) |-> <<"ProposalAdded", i - 1, proposalTitles[i]>>]
        \o << <<"ElectionCreated", electionName, admin>> >>

W_constructorEvents(proposalTitles) ==
    [i \in 1..Len(proposalTitles) |-> <<"ProposalAdded", i - 1, proposalTitles[i]>>]

\* an instance deployed with one proposal, whose event log is collected from the
\* deployment on
InitEvents ==
    /\ contract \in {"GovernanceVoting", "WeightedElection"}
    /\ \E proposalTitles \in {t \in TitleSeqs : Len(t) = 1} :
          /\ IF contract = "GovernanceVoting"
             THEN constructorErr(proposalTitles) = OK
             ELSE W_constructorErr(proposalTitles) = OK
          /\ proposals = IF contract = "GovernanceVoting"
                         THEN constructed(proposalTitles) ELSE <<>>
          /\ wProposals = IF contract = "WeightedElection"
                          THEN W_constructed(proposalTitles) ELSE <<>>
          /\ events = IF contract = "GovernanceVoting"
                      THEN constructorEvents(proposalTitles)
                      ELSE W_constructorEvents(proposalTitles)
    /\ listening = TRUE
    /\ phase = "Setup"
    /\ paused = FALSE
    /\ votingStartTime = 0
    /\ votingEndTime = 0
    /\ voters = [a \in Addresses |-> Voter]
    /\ voterAddresses = <<>>
    /\ wPhase = "Setup"
    /\ wVoters = [a \in Addresses |-> W_Voter]
    /\ now = 1
    /\ qvWeight = 0
    /\ qvResult = -2

\* the log is followed up to MaxEvents records
logOpen == Len(events) < MaxEvents

NextEvents ==
    \/ \E sender \in Accounts, account \in Addresses, weight \in WeightInputs :
          logOpen /\ whitelistVoter(sender, account, weight)
    \/ \E sender \in Accounts, title \in TitleInputs :
          logOpen /\ addProposal(sender, title, "") /\ Len(proposals') <= MaxProposals
    \/ \E sender \in Accounts, durationInMinutes \in DurationInputs :
          logOpen /\ startVoting(sender, durationInMinutes)
    \/ \E sender \in Accounts : logOpen /\ closeVoting(sender)
    \/ \E sender \in Accounts : logOpen /\ finalizeIfExpired(sender)
    \/ \E sender \in Accounts : logOpen /\ pauseElection(sender)
    \/ \E sender \in Accounts : logOpen /\ resumeElection(sender)
    \/ \E sender \in Accounts, to \in Addresses :
          /\ logOpen
          /\ delegate(sender, to)
          /\ \A a \in Addresses : voters'[a].delegatedWeight <= MaxDelegated
    \/ \E sender \in Accounts : logOpen /\ removeDelegate(sender)
    \/ \E sender \in Accounts, proposalId \in ProposalIdInputs :
          logOpen /\ vote(sender, proposalId)
    \/ \E sender \in Accounts, title \in TitleInputs :
          logOpen /\ W_addProposal(sender, title) /\ Len(wProposals') <= MaxProposals
    \/ \E sender \in Accounts, account \in Addresses, weight \in WeightInputs :
          logOpen /\ W_whitelistVoter(sender, account, weight)
    \/ \E sender \in Accounts : logOpen /\ W_startVoting(sender)
    \/ \E sender \in Accounts : logOpen /\ W_closeVoting(sender)
    \/ \E sender \in Accounts, proposalId \in ProposalIdInputs :
          logOpen /\ W_vote(sender, proposalId)
    \/ logOpen /\ Tick

SpecEvents == InitEvents /\ [][NextEvents]_vars

(***************************************************************************)
(* Vocabulary of the properties                                            *)
(***************************************************************************)
\* floor of the square root, by its defining inequality
FloorSqrt(n) == CHOOSE r \in 0..n : r * r <= n /\ n < (r + 1) * (r + 1)

weightOf == [a \in Addresses |-> voters[a].weight]

\* the voters whose delegate is t (t is an account: the zero address means "none")
delegatorsOf(t) == {v \in Addresses : voters[v].delegate = t}

\* the step is a successful call of vote(proposalId) by sender
voteSucceeds(sender, proposalId) == voteErr(sender, proposalId) = OK /\ vote(sender, proposalId)

W_voteSucceeds(sender, proposalId) ==
    W_voteErr(sender, proposalId) = OK /\ W_vote(sender, proposalId)

\* smallest index whose tally is the maximum of the tallies
firstMaximum(props) ==
    CHOOSE i \in 0..(Len(props) - 1) :
        /\ \A j \in 0..(Len(props) - 1) : props[j + 1].voteCount <= props[i + 1].voteCount
        /\ \A j \in 0..(i - 1) : props[j + 1].voteCount < props[i + 1].voteCount

windowOpen == phase = "Voting" /\ votingStartTime <= now /\ now <= votingEndTime

(***************************************************************************)
(* C1: once a voter has voted, every later vote by that voter fails, and   *)
(* no step that changes the storage is a vote, delegate or removeDelegate  *)
(* call by that voter; its voted flag and votedProposalId are kept.  Same  *)
(* for WeightedElection.vote.                                              *)
(***************************************************************************)
C1_LaterVotesFail ==
    \A v \in Accounts, p \in ProposalIdInputs :
        /\ voters[v].voted => voteErr(v, p) # OK
        /\ wVoters[v].voted => W_voteErr(v, p) # OK

C1_BallotKept(v) ==
    /\ voters[v].voted =>
          /\ voters'[v].voted /\ voters'[v].votedProposalId = voters[v].votedProposalId
          /\ ~ \/ \E p \in ProposalIdInputs : vote(v, p)
               \/ \E to \in Addresses : delegate(v, to)
               \/ removeDelegate(v)
    /\ wVoters[v].voted =>
          /\ wVoters'[v].voted /\ wVoters'[v].vote = wVoters[v].vote
          /\ ~ \E p \in ProposalIdInputs : W_vote(v, p)

C1_NoDoubleVoting ==
    /\ []C1_LaterVotesFail
    /\ [][UNCHANGED <<gstate, wstate>> \/ \A v \in Accounts : C1_BallotKept(v)]_vars

C1_Witness ==
    \E v \in Accounts : voters[v].voted /\ windowOpen /\ ~ paused
                          /\ \E u \in Accounts : u # v /\ voters[u].voted

(***************************************************************************)
(* C2 (as stated): after a successful vote by v, every later vote(p) by v  *)
(* fails with "You have already voted", whatever p and the later state.    *)
(***************************************************************************)
C2_Original ==
    \A v \in Accounts, p \in ProposalIdInputs :
        voters[v].voted => voteErr(v, p) = "You have already voted"

(***************************************************************************)
(* C2 (amended): after a successful vote by v, every later vote(p) by v    *)
(* fails; the reason is "You have already voted" exactly when the voting   *)
(* window is open, the election is not paused and p is a valid proposal    *)
(* id; otherwise it is the reason of that earlier check.                   *)
(***************************************************************************)
C2_AlreadyVoted ==
    \A v \in Accounts, p \in ProposalIdInputs :
        voters[v].voted =>
            /\ voteErr(v, p) # OK
            /\ (windowOpen /\ ~ paused /\ p < Len(proposals))
                   => voteErr(v, p) = "You have already voted"
            /\ ~ (windowOpen /\ ~ paused /\ p < Len(proposals))
                   => voteErr(v, p) \in {"Voting is not active", "Voting period has ended",
                                         "Pausable: paused", "Invalid proposal ID"}

C2_Witness ==
    \E v \in Accounts :
        /\ voters[v].voted /\ windowOpen /\ ~ paused
        /\ voteErr(v, 0) = "You have already voted"
        /\ voteErr(v, Len(proposals)) = "Invalid proposal ID"

(***************************************************************************)
(* C3: phase is Setup, Voting or Finished, starts at Setup, and a step     *)
(* either keeps it or moves it Setup -> Voting (a startVoting call) or     *)
(* Voting -> Finished (a closeVoting or finalizeIfExpired call).           *)
(***************************************************************************)
C3_PhaseStep ==
    \/ phase' = phase
    \/ /\ phase = "Setup" /\ phase' = "Voting"
       /\ \E d \in DurationInputs : startVoting(admin, d)
    \/ /\ phase = "Voting" /\ phase' = "Finished"
       /\ \/ closeVoting(admin)
          \/ \E sender \in Accounts : finalizeIfExpired(sender)

C3_PhaseMonotonic ==
    /\ phase = "Setup"
    /\ [](phase \in {"Setup", "Voting", "Finished"})
    /\ [][C3_PhaseStep]_vars

C3_Witness == phase = "Finished" /\ now > votingEndTime

C5_DelegationExactAlways ==
    \A t \in Accounts :
        voters[t].delegatedWeight =
            SumOver({v \in Accounts : voters[v].whitelisted /\ voters[v].delegate = t}, weightOf)

(***************************************************************************)
(* C6: calculateQuadraticVotes(w) returns floor(sqrt(w)) for every         *)
(* unsigned integer w.                                                     *)
(***************************************************************************)
C6_FloorSqrt == qvResult # -2 => qvResult = FloorSqrt(qvWeight)

(***************************************************************************)
(* C7: a successful vote(p) by v with total power T = weight +             *)
(* delegatedWeight marks v as voted for p, adds floor(sqrt(T)) to the      *)
(* quadratic tally of p and T to its raw tally, and changes nothing else.  *)
(***************************************************************************)
C7_VoteEffect(v, p) ==
    LET T == voters[v].weight + voters[v].delegatedWeight IN
    /\ voters' = [voters EXCEPT ![v].voted = TRUE, ![v].votedProposalId = p]
    /\ Len(proposals') = Len(proposals)
    /\ proposals'[p + 1].voteCount = proposals[p + 1].voteCount + FloorSqrt(T)
    /\ proposals'[p + 1].rawVoteCount = proposals[p + 1].rawVoteCount + T
    /\ proposals'[p + 1].title = proposals[p + 1].title
    /\ proposals'[p + 1].description = proposals[p + 1].description
    /\ \A q \in 1..Len(proposals) : q # p + 1 => proposals'[q] = proposals[q]
    /\ UNCHANGED <<phase, paused, votingStartTime, votingEndTime, voterAddresses>>

C7_VoteTally ==
    [][\/ UNCHANGED <<voters, proposals>>
       \/ \A v \in Accounts, p \in ProposalIdInputs :
              voteSucceeds(v, p) => C7_VoteEffect(v, p)]_vars

C7_Witness ==
    \E v \in Accounts :
        /\ voters[v].voted /\ voters[v].delegatedWeight > 0
        /\ proposals[voters[v].votedProposalId + 1].rawVoteCount
              = voters[v].weight + voters[v].delegatedWeight
        /\ proposals[voters[v].votedProposalId + 1].voteCount
              < proposals[voters[v].votedProposalId + 1].rawVoteCount

(***************************************************************************)
(* C8: the winner is the smallest index whose tally is the maximum tally;  *)
(* with all tallies zero it is index 0.                                    *)
(***************************************************************************)
C8_WinnerIsFirstMaximum ==
    /\ proposals # <<>> => winningProposal = firstMaximum(proposals)
    /\ wProposals # <<>> => W_winningProposal = firstMaximum(wProposals)
    /\ (\A i \in 1..Len(proposals) : proposals[i].voteCount = 0) => winningProposal = 0
    /\ (\A i \in 1..Len(wProposals) : wProposals[i].voteCount = 0) => W_winningProposal = 0

C8_Witness ==
    /\ phase = "Finished" /\ Len(proposals) = 2
    /\ proposals[1].voteCount = proposals[2].voteCount /\ proposals[1].voteCount > 0
    /\ winningProposal = 0

(***************************************************************************)
(* C9: the sum of rawVotes is at most the sum, over the voters that have   *)
(* voted, of their weight plus the weights of their delegators, and at     *)
(* most the sum of the weights of all whitelisted voters.                  *)
(***************************************************************************)
C9_RawVotesBounded ==
    /\ SumSeq(proposals, "rawVoteCount")
          <= SumOver({v \in Accounts : voters[v].voted},
                     [v \in Addresses |-> voters[v].weight + SumOver(delegatorsOf(v), weightOf)])
    /\ SumSeq(proposals, "rawVoteCount")
          <= SumOver({v \in Accounts : voters[v].whitelisted}, weightOf)

(***************************************************************************)
(* C10 (as stated): once phase = Finished the engine state never changes.  *)
(***************************************************************************)
C10_Original == [][phase = "Finished" => UNCHANGED gstate]_vars

(***************************************************************************)
(* C10 (amended): once phase = Finished, addProposal, whitelistVoter,      *)
(* startVoting, closeVoting, finalizeIfExpired, delegate, removeDelegate   *)
(* and vote fail for every caller, and phase, the voting window, the       *)
(* proposals and the voters never change again; only the admin's           *)
(* pauseElection / resumeElection still succeed and toggle paused.         *)
(***************************************************************************)
C10_FinishedCallsFail ==
    \A sender \in Accounts :
        /\ \A title \in TitleInputs : addProposalErr(sender, title) # OK
        /\ \A a \in Addresses, w \in WeightInputs : whitelistVoterErr(sender, a, w) # OK
        /\ \A d \in DurationInputs : startVotingErr(sender, d) # OK
        /\ closeVotingErr(sender) # OK
        /\ finalizeIfExpiredErr(sender) # OK
        /\ \A to \in Addresses : delegateErr(sender, to) # OK
        /\ removeDelegateErr(sender) # OK
        /\ \A p \in ProposalIdInputs : voteErr(sender, p) # OK

C10_FinishedIsFinal ==
    /\ [](phase = "Finished" => C10_FinishedCallsFail)
    /\ [][phase = "Finished" =>
             /\ UNCHANGED <<phase, votingStartTime, votingEndTime, proposals, voters,
                            voterAddresses>>
             /\ paused' # paused => (pauseElection(admin) \/ resumeElection(admin))]_vars

C10_Witness ==
    /\ phase = "Finished" /\ paused /\ now <= votingEndTime
    /\ \E v \in Accounts : voters[v].voted

(***************************************************************************)
(* C11: in every step that ends in phase Finished (the closing step and    *)
(* every later one) the proposals, hence their quadratic and raw tallies,  *)
(* are unchanged, and winningProposal() succeeds after the step and        *)
(* returns the id it would have returned before it: the id computed by     *)
(* closeVoting / finalizeIfExpired is the one every later read returns.    *)
(***************************************************************************)
C11_TalliesFrozen ==
    [][phase' = "Finished" =>
          /\ proposals' = proposals
          /\ winningProposalErr' = OK
          /\ winningProposal' = winningProposal]_vars

C11_Witness ==
    /\ phase = "Finished" /\ paused /\ Len(proposals) = 2
    /\ proposals[2].voteCount > proposals[1].voteCount
    /\ winningProposal = 1

(***************************************************************************)
(* Vocabulary of C12, C13, C16: the calls and their guards                 *)
(***************************************************************************)
UNAUTHORIZED == "Only admin can perform this action"

WRONG_PHASE == "Action not allowed in current phase"

PAUSED == "Pausable: paused"

\* the revert reasons of every call of the admin-only, Setup-only functions
setupAdminErrs(sender) ==
    {addProposalErr(sender, title) : title \in TitleInputs}
        \cup {whitelistVoterErr(sender, a, w) : a \in Addresses, w \in WeightInputs}
        \cup {startVotingErr(sender, d) : d \in DurationInputs}

\* the revert reasons of every call of the Setup-only functions open to all
setupVoterErrs(sender) ==
    {delegateErr(sender, to) : to \in Addresses} \cup {removeDelegateErr(sender)}

voteErrs(sender) == {voteErr(sender, p) : p \in ProposalIdInputs}

W_setupErrs(sender) ==
    {W_addProposalErr(sender, title) : title \in TitleInputs}
        \cup {W_whitelistVoterErr(sender, a, w) : a \in Addresses, w \in WeightInputs}
        \cup {W_startVotingErr(sender)}

W_voteErrs(sender) == {W_voteErr(sender, p) : p \in ProposalIdInputs}

\* what the Setup-only functions write
setupData ==
    <<Len(proposals), voterAddresses,
      [a \in Addresses |-> <<voters[a].whitelisted, voters[a].weight, voters[a].delegate,
                             voters[a].delegatedWeight>>]>>

\* what vote writes: the tallies and the ballots
tallies == [i \in 1..Len(proposals) |-> <<proposals[i].voteCount, proposals[i].rawVoteCount>>]

ballots == [a \in Addresses |-> <<voters[a].voted, voters[a].votedProposalId>>]

W_setupData ==
    <<Len(wProposals), [a \in Addresses |-> <<wVoters[a].whitelisted, wVoters[a].weight>>]>>

W_tallies == [i \in 1..Len(wProposals) |-> wProposals[i].voteCount]

W_ballots == [a \in Addresses |-> <<wVoters[a].voted, wVoters[a].vote>>]

(***************************************************************************)
(* C12 (as stated): a call made in a phase other than the declared one     *)
(* fails with the wrong-phase error, whoever the caller is.                *)
(***************************************************************************)
C12_Original ==
    \A sender \in Accounts :
        /\ phase # "Setup" =>
              setupAdminErrs(sender) \cup setupVoterErrs(sender) = {WRONG_PHASE}
        /\ phase # "Voting" =>
              /\ {closeVotingErr(sender), finalizeIfExpiredErr(sender)} = {WRONG_PHASE}
              /\ voteErrs(sender) = {"Voting is not active"}
        /\ phase # "Finished" => {winningProposalErr, getAllResultsErr} = {WRONG_PHASE}
        /\ wPhase # "Setup" => W_setupErrs(sender) = {"Wrong phase"}
        /\ wPhase # "Voting" => {W_closeVotingErr(sender)} \cup W_voteErrs(sender) = {"Wrong phase"}
        /\ wPhase # "Finished" => W_winningProposalErr = "Wrong phase"

(***************************************************************************)
(* C12 (amended): every operation succeeds only in its declared phase.  A  *)
(* call in another phase fails and changes nothing; its error is the       *)
(* wrong-phase error, except that an admin-only operation called by a      *)
(* non-admin fails with the unauthorized error, which is checked first.    *)
(***************************************************************************)
C12_DeclaredPhase ==
    \A sender \in Accounts :
        /\ OK \in setupAdminErrs(sender) \cup setupVoterErrs(sender) => phase = "Setup"
        /\ OK \in {closeVotingErr(sender), finalizeIfExpiredErr(sender)} \cup voteErrs(sender)
              => phase = "Voting"
        /\ OK \in {winningProposalErr, getAllResultsErr} => phase = "Finished"
        /\ OK \in W_setupErrs(sender) => wPhase = "Setup"
        /\ OK \in {W_closeVotingErr(sender)} \cup W_voteErrs(sender) => wPhase = "Voting"
        /\ W_winningProposalErr = OK => wPhase = "Finished"

C12_WrongPhaseError ==
    \A sender \in Accounts :
        /\ phase # "Setup" =>
              /\ setupAdminErrs(sender) = {IF sender = admin THEN WRONG_PHASE ELSE UNAUTHORIZED}
              /\ setupVoterErrs(sender) = {WRONG_PHASE}
        /\ phase # "Voting" =>
              /\ closeVotingErr(sender) = IF sender = admin THEN WRONG_PHASE ELSE UNAUTHORIZED
              /\ finalizeIfExpiredErr(sender) = WRONG_PHASE
              /\ voteErrs(sender) = {"Voting is not active"}
        /\ phase # "Finished" => {winningProposalErr, getAllResultsErr} = {WRONG_PHASE}
        /\ wPhase # "Setup" =>
              W_setupErrs(sender) = {IF sender = admin THEN "Wrong phase" ELSE "Only admin"}
        /\ wPhase # "Voting" =>
              /\ W_closeVotingErr(sender) = IF sender = admin THEN "Wrong phase" ELSE "Only admin"
              /\ W_voteErrs(sender) = {"Wrong phase"}
        /\ wPhase # "Finished" => W_winningProposalErr = "Wrong phase"

C12_WrongPhaseFrame ==
    /\ phase # "Setup" => (setupData' = setupData /\ (phase' # phase => phase = "Voting"))
    /\ phase # "Voting" =>
          /\ SubSeq(tallies', 1, Len(tallies)) = tallies /\ ballots' = ballots
          /\ phase' # phase => phase = "Setup"
    /\ wPhase # "Setup" => (W_setupData' = W_setupData /\ (wPhase' # wPhase => wPhase = "Voting"))
    /\ wPhase # "Voting" =>
          /\ SubSeq(W_tallies', 1, Len(W_tallies)) = W_tallies /\ W_ballots' = W_ballots
          /\ wPhase' # wPhase => wPhase = "Setup"

C12_PhaseGuards ==
    /\ [](C12_DeclaredPhase /\ C12_WrongPhaseError)
    /\ [][UNCHANGED <<gstate, wstate>> \/ C12_WrongPhaseFrame]_vars

C12_Witness ==
    \/ /\ phase = "Voting" /\ ~ paused
       /\ whitelistVoterErr(admin, 2, 1) = WRONG_PHASE
       /\ whitelistVoterErr(2, 3, 1) = UNAUTHORIZED
       /\ \E v \in Accounts : voters[v].voted
    \/ /\ wPhase = "Finished"
       /\ W_voteErr(2, 0) = "Wrong phase"
       /\ wVoters[2].whitelisted /\ ~ wVoters[2].voted

(***************************************************************************)
(* C13 (as stated): while paused, every call of addProposal,               *)
(* whitelistVoter, startVoting, closeVoting, delegate, removeDelegate or   *)
(* vote fails with Paused, whatever the caller, phase and arguments.       *)
(***************************************************************************)
C13_Original ==
    paused =>
        \A sender \in Accounts :
            setupAdminErrs(sender) \cup {closeVotingErr(sender)} \cup setupVoterErrs(sender)
                \cup voteErrs(sender) = {PAUSED}

(***************************************************************************)
(* C13 (amended): while paused, every call of those seven operations fails *)
(* and leaves the state unchanged.  The error is Paused when the call      *)
(* passes the checks made before the pause check (the caller is the admin  *)
(* for an admin-only operation, the phase is the declared one and, for     *)
(* vote, the clock is inside the voting window); otherwise it is the error *)
(* of the first of those checks.  winningProposal and getAllResults are    *)
(* not gated, resumeElection by the admin succeeds and pauseElection fails *)
(* with Paused.                                                            *)
(***************************************************************************)
C13_PausedErrors ==
    paused =>
        /\ \A sender \in Accounts :
              /\ setupAdminErrs(sender) =
                    {IF sender # admin THEN UNAUTHORIZED
                     ELSE IF phase # "Setup" THEN WRONG_PHASE ELSE PAUSED}
              /\ closeVotingErr(sender) =
                    IF sender # admin THEN UNAUTHORIZED
                    ELSE IF phase # "Voting" THEN WRONG_PHASE ELSE PAUSED
              /\ setupVoterErrs(sender) = {IF phase # "Setup" THEN WRONG_PHASE ELSE PAUSED}
              /\ voteErrs(sender) =
                    {IF phase # "Voting" THEN "Voting is not active"
                     ELSE IF now > votingEndTime THEN "Voting period has ended" ELSE PAUSED}
        /\ resumeElectionErr(admin) = OK
        /\ pauseElectionErr(admin) = PAUSED
        /\ phase = "Finished" => (winningProposalErr = OK /\ getAllResultsErr = OK)

C13_PausedFrame ==
    paused =>
        /\ UNCHANGED <<phase, votingStartTime, votingEndTime, proposals, voters, voterAddresses>>
        /\ paused' # paused => resumeElection(admin)

C13_PausedBlocks ==
    /\ []C13_PausedErrors
    /\ [][UNCHANGED gstate \/ C13_PausedFrame]_vars

C13_Witness ==
    /\ paused /\ phase = "Setup" /\ Len(voterAddresses) > 0
    /\ whitelistVoterErr(admin, 2, 1) = PAUSED
    /\ whitelistVoterErr(2, 3, 1) = UNAUTHORIZED
    /\ \E v \in Accounts : delegateErr(v, voterAddresses[1]) = PAUSED

(***************************************************************************)
(* C14: while paused, finalizeIfExpired fails for every caller, also when  *)
(* now > votingEndTime, and no step taken with paused = true changes the   *)
(* phase.                                                                  *)
(***************************************************************************)
C14_PausedPhaseFixed ==
    /\ [](paused => \A sender \in Accounts : finalizeIfExpiredErr(sender) # OK)
    /\ [][paused => phase' = phase]_vars

C14_Witness ==
    /\ paused /\ phase = "Voting" /\ now > votingEndTime
    /\ finalizeIfExpiredErr(2) = PAUSED

(***************************************************************************)
(* C15: in every phase the admin can pause an unpaused election and resume *)
(* a paused one; a step that changes paused is one of these two calls and  *)
(* changes nothing else (phase, proposals, voters, delegations, tallies,   *)
(* voting window), so that resuming after a pause gives back the storage   *)
(* of before the pause and every call has the outcome it had then.         *)
(***************************************************************************)
C15_ToggleStep ==
    /\ UNCHANGED <<phase, votingStartTime, votingEndTime, proposals, voters, voterAddresses>>
    /\ IF paused THEN resumeElection(admin) ELSE pauseElection(admin)
    /\ gstate' = [gstate EXCEPT ![2] = ~ paused]

C15_TogglesOnlyPaused ==
    /\ [](/\ pauseElectionErr(admin) = IF paused THEN PAUSED ELSE OK
          /\ resumeElectionErr(admin) = IF paused THEN OK ELSE "Pausable: not paused")
    /\ [][paused' # paused => C15_ToggleStep]_vars

C15_Witness ==
    /\ phase = "Voting" /\ paused
    /\ \E v \in Accounts : voters[v].voted
    /\ \E v \in Accounts : voters[v].whitelisted /\ ~ voters[v].voted

(***************************************************************************)
(* C16: addProposal, whitelistVoter, startVoting, closeVoting,             *)
(* pauseElection and resumeElection called by an identity other than the   *)
(* admin fail with the unauthorized error in every phase and pause state,  *)
(* with every argument, in both contracts.                                 *)
(***************************************************************************)
C16_OnlyAdmin ==
    \A sender \in Accounts \ {admin} :
        /\ setupAdminErrs(sender) = {UNAUTHORIZED}
        /\ {closeVotingErr(sender), pauseElectionErr(sender), resumeElectionErr(sender)}
              = {UNAUTHORIZED}
        /\ W_setupErrs(sender) \cup {W_closeVotingErr(sender)} = {"Only admin"}

C16_Witness ==
    /\ paused /\ phase = "Voting"
    /\ closeVotingErr(2) = UNAUTHORIZED /\ closeVotingErr(admin) = PAUSED

(***************************************************************************)
(* C17: startVoting(d) succeeds only for the admin, in Setup, unpaused,    *)
(* with a proposal, a whitelisted voter and d > 0.  The step that leaves   *)
(* Setup sets phase = Voting, votingStartTime = now and votingEndTime =    *)
(* now + d minutes > votingStartTime and changes nothing else; every other *)
(* step leaves the two times as they are.                                  *)
(***************************************************************************)
C17_StartOnlyWhen ==
    \A sender \in Accounts, d \in DurationInputs :
        startVotingErr(sender, d) = OK =>
            /\ sender = admin /\ phase = "Setup" /\ ~ paused
            /\ Len(proposals) >= 1
            /\ \E v \in Addresses : voters[v].whitelisted
            /\ d > 0

C17_StartStep ==
    IF phase = "Setup" /\ phase' # "Setup"
    THEN /\ phase' = "Voting"
         /\ votingStartTime' = now
         /\ \E d \in DurationInputs : d > 0 /\ votingEndTime' = now + d * MINUTES
         /\ votingEndTime' > votingStartTime'
         /\ UNCHANGED <<paused, proposals, voters, voterAddresses, now>>
    ELSE UNCHANGED <<votingStartTime, votingEndTime>>

C17_StartVoting ==
    /\ []C17_StartOnlyWhen
    /\ [][C17_StartStep]_vars

C17_Witness ==
    /\ phase = "Finished" /\ votingStartTime = 1 /\ votingEndTime = 1 + MINUTES
    /\ now > votingEndTime /\ Len(voterAddresses) = 1

(***************************************************************************)
(* C18: vote succeeds only when phase = Voting and votingStartTime <= now  *)
(* <= votingEndTime.  When the clock has passed votingEndTime and the      *)
(* phase is still Voting, every vote fails with the voting-window error    *)
(* and changes nothing, and finalizeIfExpired, by any caller while not     *)
(* paused, succeeds and moves the phase to Finished.                       *)
(***************************************************************************)
C18_WindowChecked ==
    /\ \A v \in Accounts : OK \in voteErrs(v) => windowOpen
    /\ (phase = "Voting" /\ now > votingEndTime) =>
          \A sender \in Accounts :
              /\ voteErrs(sender) = {"Voting period has ended"}
              /\ ~ paused => finalizeIfExpiredErr(sender) = OK

C18_ExpiredStep ==
    (phase = "Voting" /\ now > votingEndTime) =>
        /\ UNCHANGED <<proposals, voters, voterAddresses, votingStartTime, votingEndTime>>
        /\ \A sender \in Accounts :
              (~ paused /\ finalizeIfExpired(sender)) => phase' = "Finished"

C18_VotingWindow ==
    /\ []C18_WindowChecked
    /\ [][UNCHANGED gstate \/ C18_ExpiredStep]_vars

C18_Witness ==
    /\ phase = "Voting" /\ now > votingEndTime /\ ~ paused
    /\ \E v \in Accounts :
          /\ voters[v].whitelisted /\ ~ voters[v].voted /\ voters[v].delegate = ZERO_ADDRESS
          /\ voteErr(v, 0) = "Voting period has ended"
          /\ finalizeIfExpiredErr(v) = OK

(***************************************************************************)
(* C19 (as stated): finalizeIfExpired fails for every caller whenever      *)
(* now <= votingEndTime, so a vote and finalizeIfExpired never both        *)
(* succeed at the same instant; closeVoting by the admin succeeds at any   *)
(* time during Voting.                                                     *)
(***************************************************************************)
C19_Original ==
    /\ \A sender \in Accounts : now <= votingEndTime => finalizeIfExpiredErr(sender) # OK
    /\ \A sender, v \in Accounts : ~ (OK \in voteErrs(v) /\ finalizeIfExpiredErr(sender) = OK)
    /\ phase = "Voting" => closeVotingErr(admin) = OK

(***************************************************************************)
(* C19 (amended): as stated, except that closeVoting by the admin succeeds *)
(* at any time during Voting, before or after votingEndTime, while the     *)
(* election is not paused (and fails with Paused while it is).             *)
(***************************************************************************)
C19_ExpiryExclusive ==
    /\ \A sender \in Accounts : now <= votingEndTime => finalizeIfExpiredErr(sender) # OK
    /\ \A sender, v \in Accounts : ~ (OK \in voteErrs(v) /\ finalizeIfExpiredErr(sender) = OK)
    /\ \A sender \in Accounts :
          (phase = "Voting" /\ ~ paused /\ now > votingEndTime)
              => finalizeIfExpiredErr(sender) = OK
    /\ phase = "Voting" => closeVotingErr(admin) = IF paused THEN PAUSED ELSE OK

C19_Witness ==
    /\ phase = "Voting" /\ now = votingEndTime /\ ~ paused
    /\ \E v \in Accounts :
          /\ voteErr(v, 0) = OK
          /\ finalizeIfExpiredErr(v) = "Voting period not yet ended"
    /\ closeVotingErr(admin) = OK

(***************************************************************************)
(* C20: GovernanceVoting.whitelistVoter(a, w) fails when a is the zero     *)
(* address, when w <= 0 or when a is the admin; a successful call leaves   *)
(* the record of a as whitelisted, weight w, not voted, votedProposalId 0, *)
(* no delegate and delegatedWeight 0, also when a was whitelisted before.  *)
(***************************************************************************)
C20_Rejected ==
    \A sender \in Accounts, a \in Addresses, w \in WeightInputs :
        (a = ZERO_ADDRESS \/ w <= 0 \/ a = admin) => whitelistVoterErr(sender, a, w) # OK

C20_Record(a, w) ==
    voters'[a] = [whitelisted |-> TRUE, weight |-> w, voted |-> FALSE, votedProposalId |-> 0,
                  delegate |-> ZERO_ADDRESS, delegatedWeight |-> 0]

C20_WhitelistResets ==
    /\ []C20_Rejected
    /\ [][\/ UNCHANGED voters
          \/ \A a \in Addresses, w \in WeightInputs :
                (whitelistVoterErr(admin, a, w) = OK /\ whitelistVoter(admin, a, w))
                    => C20_Record(a, w)]_vars

C20_Witness ==
    \E v, t \in Accounts :
        /\ voters[v].delegate = t /\ voters[v].weight > 0
        /\ voters[t].whitelisted /\ voters[t].delegatedWeight = 0

(***************************************************************************)
(* C21: in GovernanceVoting the admin is never a voter: its record is      *)
(* never whitelisted and never marked voted, it is not in the voter list,  *)
(* no voter's delegate is the admin, and no vote, delegate or              *)
(* removeDelegate call by the admin succeeds.                              *)
(***************************************************************************)
C21_AdminNotVoter ==
    /\ ~ voters[admin].whitelisted /\ ~ voters[admin].voted
    /\ \A i \in 1..Len(voterAddresses) : voterAddresses[i] # admin
    /\ \A v \in Addresses : voters[v].delegate # admin
    /\ OK \notin voteErrs(admin) \cup setupVoterErrs(admin)

C21_Witness ==
    /\ phase = "Setup" /\ ~ paused
    /\ whitelistVoterErr(admin, admin, 1) = "Admin cannot be a voter"
    /\ \E v \in Accounts :
          /\ voters[v].whitelisted
          /\ delegateErr(v, admin) = "Delegate is not a whitelisted voter"
          /\ delegateErr(admin, v) = "You are not a whitelisted voter"

(***************************************************************************)
(* C22: delegate(to) succeeds only in Setup, unpaused, for a whitelisted   *)
(* caller that has not voted and a target that is not the zero address,    *)
(* not the caller and whitelisted.  In Setup and unpaused, a caller that   *)
(* is not whitelisted gets the not-whitelisted error, a whitelisted caller *)
(* naming itself the self-delegation error, and one naming the zero        *)
(* address or a non-whitelisted account the invalid-target error.  The     *)
(* delegate and delegatedWeight fields change only in a step that is a     *)
(* whole successful delegate, removeDelegate or whitelistVoter call.       *)
(***************************************************************************)
delegations == [a \in Addresses |-> <<voters[a].delegate, voters[a].delegatedWeight>>]

C22_DelegateGuards ==
    \A sender \in Accounts, to \in Addresses :
        /\ delegateErr(sender, to) = OK =>
              /\ phase = "Setup" /\ ~ paused
              /\ voters[sender].whitelisted /\ ~ voters[sender].voted
              /\ to # ZERO_ADDRESS /\ to # sender /\ voters[to].whitelisted
        /\ (phase = "Setup" /\ ~ paused) =>
              delegateErr(sender, to) =
                 IF ~ voters[sender].whitelisted THEN "You are not a whitelisted voter"
                 ELSE IF to = sender THEN "Cannot delegate to yourself"
                 ELSE IF to = ZERO_ADDRESS THEN "Cannot delegate to zero address"
                 ELSE IF ~ voters[to].whitelisted THEN "Delegate is not a whitelisted voter"
                 ELSE delegateErr(sender, to)

C22_WholeCalls ==
    \/ \E v \in Accounts, t \in Addresses : delegateErr(v, t) = OK /\ delegate(v, t)
    \/ \E v \in Accounts : removeDelegateErr(v) = OK /\ removeDelegate(v)
    \/ \E a \in Addresses, w \in WeightInputs :
          whitelistVoterErr(admin, a, w) = OK /\ whitelistVoter(admin, a, w)

C22_DelegateAtomic ==
    /\ []C22_DelegateGuards
    /\ [][delegations' = delegations \/ C22_WholeCalls]_vars

C22_Witness ==
    /\ phase = "Setup" /\ ~ paused
    /\ \E v, u \in Accounts :
          /\ voters[v].whitelisted /\ ~ voters[u].whitelisted /\ u # admin
          /\ delegateErr(v, u) = "Delegate is not a whitelisted voter"
          /\ delegateErr(u, v) = "You are not a whitelisted voter"
          /\ delegateErr(v, v) = "Cannot delegate to yourself"
          /\ delegateErr(v, ZERO_ADDRESS) = "Cannot delegate to zero address"

(***************************************************************************)
(* C23: in every reachable state with phase = Setup and not paused,        *)
(* removeDelegate by a whitelisted caller that delegates to t succeeds,    *)
(* and t.delegatedWeight is at least the caller's weight (so that the      *)
(* decrement stays non-negative); without a delegation it fails with the   *)
(* no-delegation error.                                                    *)
(***************************************************************************)
C23_RemoveSucceeds ==
    \A v \in Accounts :
        (phase = "Setup" /\ ~ paused /\ voters[v].whitelisted) =>
            IF voters[v].delegate # ZERO_ADDRESS
            THEN /\ removeDelegateErr(v) = OK
                 /\ voters[voters[v].delegate].delegatedWeight >= voters[v].weight
            ELSE removeDelegateErr(v) = "You have not delegated"

(***************************************************************************)
(* C24: when a whitelisted voter v without a delegation delegates to t,    *)
(* removeDelegate by v succeeds in the resulting state and gives back the  *)
(* voter records of before the delegate call (v.delegate none and          *)
(* t.delegatedWeight at its prior value); and a whitelisted voter without  *)
(* delegation that has not voted can vote for every proposal while the     *)
(* voting window is open and the election is not paused.                   *)
(***************************************************************************)
C24_Reclaimed(v, t) ==
    (voters[v].delegate = ZERO_ADDRESS /\ delegateErr(v, t) = OK /\ delegate(v, t)) =>
        /\ voters'[v].delegate = t
        /\ removeDelegateErr(v)' = OK
        /\ afterRemoveDelegate(v)' = voters

C24_CanVote ==
    \A v \in Accounts, p \in ProposalIdInputs :
        (/\ windowOpen /\ ~ paused /\ p < Len(proposals)
         /\ voters[v].whitelisted /\ ~ voters[v].voted /\ voters[v].delegate = ZERO_ADDRESS)
            => voteErr(v, p) = OK

C25_DelegatorCannotVote ==
    /\ \A v \in Accounts :
          voters[v].delegate # ZERO_ADDRESS =>
              /\ ~ voters[v].voted
              /\ OK \notin voteErrs(v)
              /\ (windowOpen /\ ~ paused) => voteErr(v, 0) = "You have delegated your vote"
    /\ phase # "Setup" =>
          \A sender \in Accounts : OK \notin setupVoterErrs(sender) \cup setupAdminErrs(sender)

C25_Witness ==
    /\ phase = "Finished"
    /\ \E v, t \in Accounts :
          /\ voters[v].delegate = t /\ ~ voters[v].voted
          /\ voters[t].voted /\ voters[t].delegate = ZERO_ADDRESS

(***************************************************************************)
(* C26: the proposal list only grows, and only during Setup; the title and *)
(* description at an index never change; no proposal has an empty title    *)
(* (addProposal and the constructor reject it); a new proposal has zero    *)
(* tallies and the two tallies of a proposal never decrease.               *)
(***************************************************************************)
C26_NoEmptyTitle ==
    /\ \A i \in 1..Len(proposals) : proposals[i].title # ""
    /\ \A sender \in Accounts : addProposalErr(sender, "") # OK
    /\ \A titles \in TitleSeqs :
          (\E i \in 1..Len(titles) : titles[i] = "") => constructorErr(titles) # OK

C26_ProposalStep ==
    /\ Len(proposals') >= Len(proposals)
    /\ phase # "Setup" => Len(proposals') = Len(proposals)
    /\ \A i \in 1..Len(proposals) :
          /\ proposals'[i].title = proposals[i].title
          /\ proposals'[i].description = proposals[i].description
          /\ proposals'[i].voteCount >= proposals[i].voteCount
          /\ proposals'[i].rawVoteCount >= proposals[i].rawVoteCount
    /\ \A i \in (Len(proposals) + 1)..Len(proposals') :
          proposals'[i].voteCount = 0 /\ proposals'[i].rawVoteCount = 0

C26_ProposalsOnlyGrow ==
    /\ []C26_NoEmptyTitle
    /\ [][UNCHANGED proposals \/ C26_ProposalStep]_vars

C26_Witness ==
    /\ phase = "Finished" /\ Len(proposals) = 2
    /\ proposals[1].title = "A" /\ proposals[2].title = "A"
    /\ proposals[2].rawVoteCount > 0
    /\ addProposalErr(admin, "A") = WRONG_PHASE

(***************************************************************************)
(* C27: a newly created engine is in phase Setup, not paused, with no      *)
(* voters and with exactly one proposal per supplied title, in the         *)
(* supplied order, each with zero tallies; it is created once: the         *)
(* deployed contract never changes and never returns to Setup.             *)
(***************************************************************************)
C27_Fresh ==
    /\ IF contract = "GovernanceVoting" THEN phase = "Setup" /\ ~ paused ELSE wPhase = "Setup"
    /\ voterAddresses = <<>>
    /\ \A a \in Addresses : ~ voters[a].whitelisted /\ ~ wVoters[a].whitelisted
    /\ \E titles \in TitleSeqs :
          IF contract = "GovernanceVoting"
          THEN /\ Len(proposals) = Len(titles)
               /\ \A i \in 1..Len(titles) :
                     /\ proposals[i].title = titles[i]
                     /\ proposals[i].voteCount = 0 /\ proposals[i].rawVoteCount = 0
          ELSE /\ Len(wProposals) = Len(titles)
               /\ \A i \in 1..Len(titles) :
                     wProposals[i].title = titles[i] /\ wProposals[i].voteCount = 0

C27_NewEngine ==
    /\ C27_Fresh
    /\ [][/\ contract' = contract
          /\ phase' = "Setup" => phase = "Setup"
          /\ wPhase' = "Setup" => wPhase = "Setup"]_vars

C27_Witness ==
    /\ contract = "GovernanceVoting" /\ phase = "Setup" /\ ~ paused /\ voterAddresses = <<>>
    /\ Len(proposals) = 2 /\ proposals[1].title = "A" /\ proposals[2].title = "B"
    /\ tallies = <<<<0, 0>>, <<0, 0>>>>

(***************************************************************************)
(* C28: in WeightedElection the voteCount of every proposal is the sum of  *)
(* the weights of the voters that voted for it, and the sum of all         *)
(* voteCounts is the sum of the weights of the voters that have voted.     *)
(***************************************************************************)
W_weightOf == [a \in Addresses |-> wVoters[a].weight]

C28_TallyIsWeightSum ==
    /\ \A i \in 1..Len(wProposals) :
          wProposals[i].voteCount
              = SumOver({v \in Addresses : wVoters[v].voted /\ wVoters[v].vote = i - 1},
                        W_weightOf)
    /\ SumSeq(wProposals, "voteCount")
          = SumOver({v \in Addresses : wVoters[v].voted}, W_weightOf)

C28_Witness ==
    /\ wPhase = "Finished" /\ Len(wProposals) = 2
    /\ \E v, u \in Accounts :
          /\ wVoters[v].voted /\ wVoters[u].voted /\ wVoters[v].weight # wVoters[u].weight
          /\ wVoters[v].vote = 1 /\ wVoters[u].vote = 1
    /\ wProposals[2].voteCount = 3

(***************************************************************************)
(* C29: the calls are atomic transactions, so every behaviour is a         *)
(* sequential order of them in which each call checks its guards against   *)
(* the storage left by the previous one.  In particular: after a           *)
(* successful vote by v, every further vote by v fails (of two vote        *)
(* requests of one identity exactly the first one ordered succeeds); after *)
(* the step that closes the voting, every vote fails and the tallies are   *)
(* those of before the close (a vote is counted only if ordered before     *)
(* it); after the step that starts the voting, every whitelistVoter fails. *)
(***************************************************************************)
C29_NoVoteSucceeds(v) == OK \notin voteErrs(v)

C29_NoWhitelistSucceeds ==
    \A a \in Addresses, w \in WeightInputs : whitelistVoterErr(admin, a, w) # OK

C29_SerialStep ==
    /\ \A v \in Accounts, p \in ProposalIdInputs :
          voteSucceeds(v, p) => C29_NoVoteSucceeds(v)'
    /\ (phase = "Voting" /\ phase' = "Finished") =>
          /\ proposals' = proposals
          /\ \A v \in Accounts : C29_NoVoteSucceeds(v)'
    /\ (phase = "Setup" /\ phase' = "Voting") =>
          /\ UNCHANGED <<voters, voterAddresses>>
          /\ C29_NoWhitelistSucceeds'

C29_Serializable == [][UNCHANGED <<phase, voters>> \/ C29_SerialStep]_vars

C29_Witness ==
    /\ phase = "Finished" /\ ~ paused /\ now <= votingEndTime
    /\ \E v, u \in Accounts :
          /\ voters[v].voted
          /\ voters[u].whitelisted /\ ~ voters[u].voted /\ voters[u].delegate = ZERO_ADDRESS
          /\ voteErr(u, 0) = "Voting is not active"

(***************************************************************************)
(* C30: a successful whitelistVoter(a, w) changes the record of a and      *)
(* appends a to the voter list when it is new, and nothing else: the       *)
(* records of all other voters, among them the delegatedWeight of the      *)
(* voter a delegated to and the delegate fields pointing to a, are         *)
(* unchanged, while a.delegatedWeight is reset to 0.                       *)
(***************************************************************************)
C30_OnlyOwnRecord(a, w) ==
    (whitelistVoterErr(admin, a, w) = OK /\ whitelistVoter(admin, a, w)) =>
        /\ \A b \in Addresses \ {a} : voters'[b] = voters[b]
        /\ voters'[a].delegatedWeight = 0 /\ voters'[a].delegate = ZERO_ADDRESS
        /\ voterAddresses' = IF voters[a].whitelisted THEN voterAddresses
                             ELSE Append(voterAddresses, a)
        /\ UNCHANGED <<phase, paused, votingStartTime, votingEndTime, proposals>>

C30_WhitelistFrame ==
    [][UNCHANGED voters \/ \A a \in Addresses, w \in WeightInputs : C30_OnlyOwnRecord(a, w)]_vars

C30_Witness ==
    \E a, t \in Accounts :
        /\ voters[a].whitelisted /\ voters[a].delegate = ZERO_ADDRESS
        /\ voters[t].delegatedWeight > 0 /\ delegatorsOf(t) = {}

(***************************************************************************)
(* C31: a successful delegate(to) by c with weight w and previous delegate *)
(* old (or none) sets c.delegate = to, takes w from old.delegatedWeight    *)
(* (when old exists) and adds w to to.delegatedWeight, and changes nothing *)
(* else; when old = to, to.delegatedWeight is the same as before.          *)
(***************************************************************************)
C31_Delegated(c, to) ==
    LET w == voters[c].weight
        old == voters[c].delegate
        debit(a) == IF old # ZERO_ADDRESS /\ a = old THEN w ELSE 0
        credit(a) == IF a = to THEN w ELSE 0
    IN  /\ voters' = [a \in Addresses |->
                        [voters[a] EXCEPT
                            !.delegate = IF a = c THEN to ELSE @,
                            !.delegatedWeight = @ - debit(a) + credit(a)]]
        /\ old = to => voters'[to].delegatedWeight = voters[to].delegatedWeight
        /\ UNCHANGED <<phase, paused, votingStartTime, votingEndTime, proposals, voterAddresses>>

C34_PowerPositive ==
    /\ \A a \in Addresses :
          voters[a].whitelisted => (voters[a].weight >= 1 /\ totalWeight(a) > 0)
    /\ \A i \in 1..Len(voterAddresses) : voters[voterAddresses[i]].whitelisted
    /\ \A sender \in Accounts : "No voting power" \notin voteErrs(sender)

C34_Witness ==
    /\ windowOpen /\ ~ paused
    /\ \E v \in Accounts :
          /\ voters[v].whitelisted /\ voters[v].weight = 1 /\ voters[v].delegatedWeight = 0
          /\ voteErr(v, 0) = OK

(***************************************************************************)
(* C35: a voter that has voted has no delegate, is whitelisted and its     *)
(* votedProposalId is the index of a proposal.                             *)
(***************************************************************************)
C35_VotedIsConsistent ==
    \A a \in Addresses :
        voters[a].voted =>
            /\ voters[a].delegate = ZERO_ADDRESS
            /\ voters[a].whitelisted
            /\ voters[a].votedProposalId < Len(proposals)

C35_Witness ==
    /\ Len(proposals) = 2
    /\ \E v, u \in Accounts :
          /\ voters[v].voted /\ voters[v].votedProposalId = 1
          /\ voters[u].delegate = v /\ ~ voters[u].voted

(***************************************************************************)
(* C36: while phase = Setup nobody has voted, all tallies are 0 and        *)
(* votingStartTime = votingEndTime = 0, so whitelistVoter, which runs in   *)
(* Setup only, never resets a cast ballot.                                 *)
(***************************************************************************)
C36_SetupIsClean ==
    /\ phase = "Setup" =>
          /\ \A a \in Addresses : ~ voters[a].voted /\ voters[a].votedProposalId = 0
          /\ \A i \in 1..Len(proposals) :
                proposals[i].voteCount = 0 /\ proposals[i].rawVoteCount = 0
          /\ votingStartTime = 0 /\ votingEndTime = 0
    /\ phase # "Setup" =>
          \A sender \in Accounts, a \in Addresses, w \in WeightInputs :
              whitelistVoterErr(sender, a, w) # OK

C36_Witness ==
    /\ phase = "Setup" /\ paused /\ Len(proposals) = 2
    /\ \E v, u \in Accounts : voters[v].delegate = u /\ voters[u].delegatedWeight = 2

(***************************************************************************)
(* C37: for every proposal p, quadraticVotes(p) <= rawVotes(p),            *)
(* rawVotes(p) is the sum of the power weight + delegatedWeight of the     *)
(* voters that voted for p and quadraticVotes(p) the sum of the floor      *)
(* square roots of these powers.                                           *)
(***************************************************************************)
powerOf == [a \in Addresses |-> voters[a].weight + voters[a].delegatedWeight]

sqrtPowerOf == [a \in Addresses |-> FloorSqrt(powerOf[a])]

votersFor(p) == {a \in Addresses : voters[a].voted /\ voters[a].votedProposalId = p}

C37_TalliesAreSums ==
    \A i \in 1..Len(proposals) :
        /\ proposals[i].voteCount <= proposals[i].rawVoteCount
        /\ proposals[i].rawVoteCount = SumOver(votersFor(i - 1), powerOf)
        /\ proposals[i].voteCount = SumOver(votersFor(i - 1), sqrtPowerOf)

C37_Witness ==
    /\ phase = "Finished"
    /\ \E v, u \in Accounts :
          /\ v # u /\ votersFor(0) = {v, u} /\ powerOf[v] # powerOf[u]
          /\ proposals[1].voteCount = 2 /\ proposals[1].rawVoteCount = 3

(***************************************************************************)
(* C38: the voter list holds every whitelisted identity exactly once, so   *)
(* getVoterCount is the number of distinct whitelisted identities and the  *)
(* voter precondition of startVoting holds exactly when somebody is        *)
(* whitelisted.                                                            *)
(***************************************************************************)
getVoterCount == Len(voterAddresses)

C38_VoterCountExact ==
    /\ \A i, j \in 1..Len(voterAddresses) : voterAddresses[i] = voterAddresses[j] => i = j
    /\ {voterAddresses[i] : i \in 1..Len(voterAddresses)}
          = {a \in Addresses : voters[a].whitelisted}
    /\ getVoterCount = Cardinality({a \in Addresses : voters[a].whitelisted})
    /\ (phase = "Setup" /\ ~ paused /\ Len(proposals) > 0) =>
          (startVotingErr(admin, 1) = OK <=> \E a \in Addresses : voters[a].whitelisted)

C38_Witness ==
    /\ getVoterCount = 2 /\ phase = "Voting"
    /\ \E v, t \in Accounts : voters[v].delegate = t /\ voters[t].delegatedWeight = 0

(***************************************************************************)
(* C39: calculateQuadraticVotes does not overflow or fail for any          *)
(* representable argument, the maximum 2^w - 1 included.                   *)
(***************************************************************************)
C39_NoOverflow == qvResult # -1

(***************************************************************************)
(* C32: delegation is single-hop.  When A delegates to B and B delegates   *)
(* to C, C.delegatedWeight is B.weight and does not include A.weight, and  *)
(* B.delegatedWeight keeps A.weight (plus C.weight when C delegates to B); *)
(* a successful delegate or removeDelegate changes no delegatedWeight but  *)
(* those of the caller's old and new direct delegate.                      *)
(***************************************************************************)
C32_Chain ==
    \A A, B, C \in ChainVoters :
        (A # C /\ voters[A].delegate = B /\ voters[B].delegate = C) =>
            /\ voters[C].delegatedWeight = voters[B].weight
            /\ voters[B].delegatedWeight =
                  voters[A].weight + IF voters[C].delegate = B THEN voters[C].weight ELSE 0

C32_OnlyDirectTargets ==
    \A c \in ChainVoters :
        (\/ \E to \in ChainVoters : delegateErr(c, to) = OK /\ delegate(c, to)
         \/ removeDelegateErr(c) = OK /\ removeDelegate(c)) =>
            \A a \in ChainVoters \ {voters[c].delegate, voters'[c].delegate} :
                voters'[a].delegatedWeight = voters[a].delegatedWeight

C32_SingleHop ==
    /\ []C32_Chain
    /\ [][UNCHANGED voters \/ C32_OnlyDirectTargets]_vars

C32_Witness ==
    \E A, B, C \in ChainVoters :
        /\ A # C /\ voters[A].delegate = B /\ voters[B].delegate = C
        /\ voters[C].delegate = ZERO_ADDRESS
        /\ voters[A].weight = 2 /\ voters[B].weight = 1
        /\ voters[B].delegatedWeight = 2 /\ voters[C].delegatedWeight = 1

(***************************************************************************)
(* C40: an election that has entered Voting eventually reaches Finished,   *)
(* provided the clock passes votingEndTime, paused is eventually false for *)
(* good and finalizeIfExpired is weakly fair; in phase Voting with         *)
(* paused = false and now > votingEndTime, finalizeIfExpired succeeds for  *)
(* every caller (the winner index is a valid proposal index).              *)
(***************************************************************************)
C40_Expired ==
    /\ contract = "GovernanceVoting"
    /\ phase = "Voting"
    /\ ~ paused
    /\ now > votingEndTime

C40_FinalizeSucceeds ==
    C40_Expired =>
        /\ calculateWinner < Len(proposals)
        /\ \A sender \in Accounts : finalizeIfExpiredErr(sender) = OK

C40_EventuallyFinished ==
    /\ []C40_FinalizeSucceeds
    /\ (<>[](~ paused)) => ((phase = "Voting") ~> (phase = "Finished"))

C40_Witness ==
    /\ C40_Expired
    /\ \E v \in Accounts : voters[v].voted
    /\ \A sender \in Accounts : finalizeIfExpiredErr(sender) = OK

(***************************************************************************)
(* C33: every successful mutating operation appends exactly one record of  *)
(* the matching kind carrying its key parameters, a failed operation       *)
(* appends none, and the records are in the commit order of the            *)
(* operations.                                                             *)
(***************************************************************************)
\* the record e names a call that succeeds in the state before the step, and the
\* step is that call's effect
C33_Matches(e) ==
    IF contract = "GovernanceVoting"
    THEN CASE e[1] = "ProposalAdded" ->
                /\ addProposalErr(admin, e[3]) = OK
                /\ e[2] = Len(proposals)
                /\ Len(proposals') = Len(proposals) + 1
                /\ proposals'[e[2] + 1].title = e[3]
           [] e[1] = "VoterWhitelisted" ->
                /\ whitelistVoterErr(admin, e[2], e[3]) = OK
                /\ voters'[e[2]].whitelisted
                /\ voters'[e[2]].weight = e[3]
           [] e[1] = "VotingStarted" ->
                /\ \E d \in DurationInputs :
                      startVotingErr(admin, d) = OK /\ e[3] = now + d * MINUTES
                /\ e[2] = now
                /\ phase' = "Voting"
                /\ votingStartTime' = e[2]
                /\ votingEndTime' = e[3]
           [] e[1] = "VotingEnded" ->
                /\ \/ closeVotingErr(admin) = OK
                   \/ \E sender \in Accounts : finalizeIfExpiredErr(sender) = OK
                /\ phase' = "Finished"
                /\ e[2] = calculateWinner
                /\ e[3] = proposals[e[2] + 1].title
           [] e[1] = "Paused" ->
                pauseElectionErr(e[2]) = OK /\ paused'
           [] e[1] = "Unpaused" ->
                resumeElectionErr(e[2]) = OK /\ ~ paused'
           [] e[1] = "VoteDelegated" ->
                /\ IF e[3] = ZERO_ADDRESS
                   THEN removeDelegateErr(e[2]) = OK
                   ELSE delegateErr(e[2], e[3]) = OK
                /\ voters'[e[2]].delegate = e[3]
                /\ e[4] = voters[e[2]].weight
           [] e[1] = "Voted" ->
                /\ voteErr(e[2], e[3]) = OK
                /\ voters'[e[2]].voted
                /\ voters'[e[2]].votedProposalId = e[3]
                /\ e[5] = totalWeight(e[2])
                /\ e[4] = calculateQuadraticVotes(e[5])
                /\ proposals'[e[3] + 1].voteCount = proposals[e[3] + 1].voteCount + e[4]
           [] OTHER -> FALSE
    ELSE CASE e[1] = "ProposalAdded" ->
                /\ W_addProposalErr(admin, e[3]) = OK
                /\ e[2] = Len(wProposals)
                /\ Len(wProposals') = Len(wProposals) + 1
                /\ wProposals'[e[2] + 1].title = e[3]
           [] e[1] = "VoterWhitelisted" ->
                /\ W_whitelistVoterErr(admin, e[2], e[3]) = OK
                /\ wVoters'[e[2]].whitelisted
                /\ wVoters'[e[2]].weight = e[3]
           [] e[1] = "PhaseAdvanced" ->
                /\ IF e[2] = "Voting"
                   THEN W_startVotingErr(admin) = OK
                   ELSE e[2] = "Finished" /\ W_closeVotingErr(admin) = OK
                /\ wPhase' = e[2]
           [] e[1] = "Voted" ->
                /\ W_voteErr(e[2], e[3]) = OK
                /\ wVoters'[e[2]].voted
                /\ wVoters'[e[2]].vote = e[3]
                /\ e[4] = wVoters[e[2]].weight
                /\ wProposals'[e[3] + 1].voteCount = wProposals[e[3] + 1].voteCount + e[4]
           [] OTHER -> FALSE

\* no change of the contract's storage without a record; at most one record per
\* step, appended at the end, and matching the step
C33_OneRecordPerCall ==
    \/ UNCHANGED <<gstate, wstate, events>>
    \/ /\ Len(events') = Len(events) + 1
       /\ SubSeq(events', 1, Len(events)) = events
       /\ C33_Matches(events'[Len(events')])

C33_kindAt(i) == events[i][1]

\* the log reads in commit order: proposal ids ascend, the opening of the vote
\* precedes every ballot and every ballot precedes the closing; the proposals
\* and the ballots cast are exactly those on record
C33_CommitOrder ==
    /\ \A i, j \in 1..Len(events) :
          /\ (i < j /\ C33_kindAt(i) = "ProposalAdded" /\ C33_kindAt(j) = "ProposalAdded")
                => events[i][2] < events[j][2]
          /\ (C33_kindAt(i) \in {"VotingStarted", "PhaseAdvanced"} /\ C33_kindAt(j) = "Voted"
              /\ (C33_kindAt(i) = "PhaseAdvanced" => events[i][2] = "Voting"))
                => i < j
          /\ (C33_kindAt(i) = "Voted" /\ C33_kindAt(j) \in {"VotingEnded", "PhaseAdvanced"}
              /\ (C33_kindAt(j) = "PhaseAdvanced" => events[j][2] = "Finished"))
                => i < j
    /\ Cardinality({i \in 1..Len(events) : C33_kindAt(i) = "ProposalAdded"}) =
          IF contract = "GovernanceVoting" THEN Len(proposals) ELSE Len(wProposals)
    /\ Cardinality({i \in 1..Len(events) : C33_kindAt(i) = "Voted"}) =
          IF contract = "GovernanceVoting"
          THEN Cardinality({v \in Addresses : voters[v].voted})
          ELSE Cardinality({v \in Addresses : wVoters[v].voted})

C33_EventLog ==
    /\ [](listening => C33_CommitOrder)
    /\ [][listening => C33_OneRecordPerCall]_vars

C33_Witness ==
    /\ listening
    /\ contract = "GovernanceVoting"
    /\ \E i, j, k \in 1..Len(events) :
          /\ i < j /\ j < k
          /\ C33_kindAt(i) = "VotingStarted"
          /\ C33_kindAt(j) = "Voted"
          /\ C33_kindAt(k) = "VotingEnded"

=============================================================================
